---- MODULE Spec2Model ----
(***************************************************************************)
(* Model of portprowler's scan orchestration: scanner.Manager.Run          *)
(* (port-prowler/scanner/manager.go), its worker goroutines, its           *)
(* dispatcher goroutine, the context it is given, and the caller in        *)
(* port-prowler/main.go that builds the Config from the command line and   *)
(* maps Run's error to an exit code.                                       *)
(***************************************************************************)
EXTENDS Integers, Sequences, FiniteSets, TLC

\* ---------------------------------------------------------------- bounds
MaxPort == 2
MaxWorkers == 2

\* ---------------------------------------------------------------- inputs
Workers == 1..MaxWorkers

Flags == {"s", "tcp", "udp"}

\* command lines: every order of every subset of the three scan flags
ArgvSet ==
    {a \in UNION {[1..n -> Flags] : n \in 0..3} :
        \A i, j \in DOMAIN a : i # j => a[i] # a[j]}

RECURSIVE Ascending(_)
Ascending(S) ==
    IF S = {} THEN <<>>
    ELSE LET m == CHOOSE x \in S : \A y \in S : x <= y
         IN <<m>> \o Ascending(S \ {m})

\* port lists as ParsePortSpec returns them: sorted, deduplicated
PortLists == {Ascending(S) : S \in SUBSET (1..MaxPort)}

Targets == {"", "host"}
IPs == {"", "10.0.0.1"}

HasFlag(argv, f) == \E i \in DOMAIN argv : argv[i] = f

\* main.go: flag.Bool("tcp"/"udp"/"s") parsed into the Config
MakeConfig(target, ip, ports, argv, workers) ==
    [Target |-> target, IP |-> ip, Ports |-> ports,
     ScanTCP |-> HasFlag(argv, "tcp"),
     ScanUDP |-> HasFlag(argv, "udp"),
     ScanStealth |-> HasFlag(argv, "s"),
     Workers |-> workers]

\* ---------------------------------------------------------------- Run, pure parts
ValidateConfigNoPortCheck(c) ==
    IF c.Target = "" \/ c.IP = "" THEN "missing target/ip" ELSE "nil"

\* manager.go 45-50
ValidateConfig(c) ==
    IF c.Target = "" \/ c.IP = "" THEN "missing target/ip"
    ELSE IF Len(c.Ports) = 0 THEN "no ports to scan"
    ELSE "nil"

ScanTypesTCPFirst(c) ==
    LET a == IF c.ScanTCP THEN <<"tcp">> ELSE <<>>
        b == IF c.ScanStealth THEN a \o <<"stealth">> ELSE a
        d == IF c.ScanUDP THEN b \o <<"udp">> ELSE b
    IN IF Len(d) = 0 THEN <<"tcp">> ELSE d

\* manager.go 52-66
ScanTypesOf(c) ==
    LET a == IF c.ScanStealth THEN <<"stealth">> ELSE <<>>
        b == IF c.ScanTCP THEN a \o <<"tcp">> ELSE a
        d == IF c.ScanUDP THEN b \o <<"udp">> ELSE b
    IN IF Len(d) = 0 THEN <<"tcp">> ELSE d

JobChanCapOne(c) == IF Len(c.Ports) = 0 THEN 0 ELSE 1

\* manager.go 68-69
JobChanCap(c) == Len(c.Ports)

\* manager.go 70
ResultsChanCap(c) == Len(c.Ports) * Len(ScanTypesOf(c))

NumWorkersUncoerced(c) == c.Workers

\* manager.go 72-75
NumWorkers(c) == IF c.Workers <= 0 THEN 1 ELSE c.Workers

\* manager.go 228-233
MakeJob(c, p) ==
    [Target |-> c.Target, IP |-> c.IP, Port |-> p, ScanTypes |-> ScanTypesOf(c)]

JobsPerProtocol(c) ==
    LET st == ScanTypesOf(c)
        n == Len(st)
    IN [k \in 1..(Len(c.Ports) * n) |->
          [Target |-> c.Target, IP |-> c.IP,
           Port |-> c.Ports[((k - 1) \div n) + 1],
           ScanTypes |-> <<st[((k - 1) % n) + 1]>>]]

JobsRepeatLast(c) ==
    [k \in 1..(IF Len(c.Ports) = 0 THEN 0 ELSE Len(c.Ports) + 1) |->
        MakeJob(c, c.Ports[IF k > Len(c.Ports) THEN Len(c.Ports) ELSE k])]

\* manager.go 222-235: the jobs the dispatcher enqueues, in order
Jobs(c) == [k \in 1..Len(c.Ports) |-> MakeJob(c, c.Ports[k])]

\* main.go 86-93
ExitCode(e) == IF e = "nil" THEN 0 ELSE IF e = "ErrNeedPriv" THEN 3 ELSE 4

NoJob == [Target |-> "", IP |-> "", Port |-> 0, ScanTypes |-> <<>>]
NoResult == [Target |-> "", IP |-> "", Port |-> 0, Proto |-> ""]
NoCall == [st |-> ""]

WaitReadyAlways(n) == TRUE

\* manager.go 238: wg.Wait() returns when the counter is zero
WaitReady(n) == n = 0

CheckDoneNever(done) == FALSE

\* manager.go 94-98: non-blocking poll of ctx.Done() before each protocol
CheckDone(done) == done

AfterPublishBreak(job, idx) == "select"

\* manager.go 93, 132, 165, 198, 213: position after a protocol's result is sent
AfterPublish(job, idx) == IF idx < Len(job.ScanTypes) THEN "check" ELSE "select"

\* TCPScan / UDPScan / StealthScan: fields every probe result carries,
\* with res.Target = job.Target (manager.go 106, 140, 173, 201-207)
ProbeResult(job, st) ==
    [Target |-> job.Target, IP |-> job.IP, Port |-> job.Port, Proto |-> st]

\* ================================================================ text
\* Go strings are sequences of one-character strings, so that
\* strings.Contains, strings.ToLower and strings.TrimSpace are computed.
UpperCase == <<"A", "B", "C", "D", "E", "F", "G", "H", "I", "J", "K", "L", "M",
               "N", "O", "P", "Q", "R", "S", "T", "U", "V", "W", "X", "Y", "Z">>
LowerCase == <<"a", "b", "c", "d", "e", "f", "g", "h", "i", "j", "k", "l", "m",
               "n", "o", "p", "q", "r", "s", "t", "u", "v", "w", "x", "y", "z">>

LowerOf == [i \in DOMAIN UpperCase |-> LowerCase[i]]
UpperIndex == [ch \in {UpperCase[i] : i \in DOMAIN UpperCase} |->
                  CHOOSE i \in DOMAIN UpperCase : UpperCase[i] = ch]

ToLowerChar(ch) == IF ch \in DOMAIN UpperIndex THEN LowerOf[UpperIndex[ch]] ELSE ch

\* strings.ToLower
ToLower(str) == [i \in 1..Len(str) |-> ToLowerChar(str[i])]

\* strings.Contains
Contains(str, sub) ==
    \E i \in 1..(Len(str) - Len(sub) + 1) :
        \A j \in 1..Len(sub) : str[i + j - 1] = sub[j]

WhiteSpace == {" ", "\t", "\n", "\r"}

\* strings.TrimSpace
TrimSpace(str) ==
    LET keep == {i \in DOMAIN str : str[i] \notin WhiteSpace}
    IN IF keep = {} THEN <<>>
       ELSE SubSeq(str, CHOOSE i \in keep : \A j \in keep : i <= j,
                        CHOOSE i \in keep : \A j \in keep : j <= i)

S_timeout == <<"t", "i", "m", "e", "o", "u", "t">>
S_connection_refused == <<"c", "o", "n", "n", "e", "c", "t", "i", "o", "n", " ", "r", "e", "f", "u", "s", "e", "d">>
S_refused == <<"r", "e", "f", "u", "s", "e", "d">>
S_io_timeout == <<"i", "/", "o", " ", "t", "i", "m", "e", "o", "u", "t">>
S_dial_refused == <<"c", "o", "n", "n", "e", "c", "t", ":", " ", "c", "o", "n", "n", "e", "c", "t", "i", "o", "n", " ", "r", "e", "f", "u", "s", "e", "d">>
S_read_refused == <<"r", "e", "a", "d", ":", " ", "c", "o", "n", "n", "e", "c", "t", "i", "o", "n", " ", "r", "e", "f", "u", "s", "e", "d">>
S_actively_refused == <<"a", "c", "t", "i", "v", "e", "l", "y", " ", "r", "e", "f", "u", "s", "e", "d", " ", "i", "t">>
S_net_unreachable == <<"n", "e", "t", "w", "o", "r", "k", " ", "i", "s", " ", "u", "n", "r", "e", "a", "c", "h", "a", "b", "l", "e">>
S_dns_not_validated == <<"d", "n", "s", " ", "r", "e", "s", "p", "o", "n", "s", "e", " ", "n", "o", "t", " ", "v", "a", "l", "i", "d", "a", "t", "e", "d">>
S_need_priv == <<"s", "t", "e", "a", "l", "t", "h", " ", "s", "c", "a", "n", " ", "r", "e", "q", "u", "i", "r", "e", "s", " ", "r", "a", "w", " ", "s", "o", "c", "k", "e", "t", " ", "p", "r", "i", "v", "i", "l", "e", "g", "e", "s">>
S_priv_check_error == <<"s", "t", "e", "a", "l", "t", "h", " ", "p", "r", "i", "v", "i", "l", "e", "g", "e", " ", "c", "h", "e", "c", "k", " ", "e", "r", "r", "o", "r", ":", " ">>
S_not_implemented == <<"s", "t", "e", "a", "l", "t", "h", " ", "s", "c", "a", "n", " ", "n", "o", "t", " ", "i", "m", "p", "l", "e", "m", "e", "n", "t", "e", "d", " ", "i", "n", " ", "t", "h", "i", "s", " ", "b", "u", "i", "l", "d", " ", "(", "s", "t", "u", "b", ")">>
S_no_such_host == <<"n", "o", " ", "s", "u", "c", "h", " ", "h", "o", "s", "t">>
S_closed_conn == <<"u", "s", "e", " ", "o", "f", " ", "c", "l", "o", "s", "e", "d", " ", "n", "e", "t", "w", "o", "r", "k", " ", "c", "o", "n", "n", "e", "c", "t", "i", "o", "n">>
S_write_refused == <<"w", "r", "i", "t", "e", ":", " ", "c", "o", "n", "n", "e", "c", "t", "i", "o", "n", " ", "r", "e", "f", "u", "s", "e", "d">>
S_no_route == <<"n", "o", " ", "r", "o", "u", "t", "e", " ", "t", "o", " ", "h", "o", "s", "t">>
S_svc_dial_error == <<"s", "e", "r", "v", "i", "c", "e", "-", "d", "e", "t", "e", "c", "t", ":", " ", "d", "i", "a", "l", " ", "e", "r", "r", "o", "r", ":", " ">>
S_raw_windows == <<"r", "a", "w", " ", "s", "o", "c", "k", "e", "t", "s", " ", "n", "o", "t", " ", "s", "u", "p", "p", "o", "r", "t", "e", "d", " ", "o", "n", " ", "W", "i", "n", "d", "o", "w", "s", " ", "i", "n", " ", "t", "h", "i", "s", " ", "b", "u", "i", "l", "d">>

\* ================================================================ ParsePortSpec
DigitChars == <<"0", "1", "2", "3", "4", "5", "6", "7", "8", "9">>
DigitVal == [ch \in {DigitChars[i] : i \in DOMAIN DigitChars} |->
                (CHOOSE i \in DOMAIN DigitChars : DigitChars[i] = ch) - 1]

\* strconv.Itoa for n >= 0
RECURSIVE Itoa(_)
Itoa(n) ==
    IF n < 10 THEN <<DigitChars[n + 1]>>
    ELSE Itoa(n \div 10) \o <<DigitChars[(n % 10) + 1]>>

RECURSIVE DecimalValue(_)
DecimalValue(str) ==
    IF str = <<>> THEN 0
    ELSE DecimalValue(SubSeq(str, 1, Len(str) - 1)) * 10 + DigitVal[str[Len(str)]]

\* strconv.Atoi: an optional sign, then one or more decimal digits (the
\* texts used here stay far below the 64-bit range)
Atoi(str) ==
    LET signed == str # <<>> /\ str[1] \in {"+", "-"}
        body == IF signed THEN Tail(str) ELSE str
    IN IF body = <<>> \/ \E i \in DOMAIN body : body[i] \notin DOMAIN DigitVal
       THEN [ok |-> FALSE, val |-> 0]
       ELSE [ok |-> TRUE,
             val |-> IF signed /\ str[1] = "-" THEN 0 - DecimalValue(body)
                     ELSE DecimalValue(body)]

\* position of the first sep in str, 0 when there is none
IndexOf(str, sep) ==
    IF \E i \in DOMAIN str : str[i] = sep
    THEN CHOOSE i \in DOMAIN str : str[i] = sep /\ \A j \in 1..(i - 1) : str[j] # sep
    ELSE 0

\* strings.Split(str, sep) for a one-character sep
RECURSIVE Split(_, _)
Split(str, sep) ==
    LET i == IndexOf(str, sep)
    IN IF i = 0 THEN <<str>>
       ELSE <<SubSeq(str, 1, i - 1)>> \o Split(SubSeq(str, i + 1, Len(str)), sep)

\* strings.SplitN(str, sep, 2)
SplitN2(str, sep) ==
    LET i == IndexOf(str, sep)
    IN IF i = 0 THEN <<str>>
       ELSE <<SubSeq(str, 1, i - 1), SubSeq(str, i + 1, Len(str))>>

InRangeNoLowerBound(v) == v <= 65535

InRange(v) == v >= 1 /\ v <= 65535

\* parse.go 24-59: one token; the ports it names or the error it ends with
ParseToken(tok) ==
    LET p == TrimSpace(tok)
    IN IF p = <<>> THEN [err |-> "invalid empty token in port spec", ports |-> {}]
       ELSE IF Contains(p, <<"-">>)
       THEN LET bounds == SplitN2(p, "-")
                start == Atoi(TrimSpace(bounds[1]))
                end == Atoi(TrimSpace(bounds[2]))
            IN IF Len(bounds) # 2 THEN [err |-> "invalid range token", ports |-> {}]
               ELSE IF ~start.ok \/ ~end.ok THEN [err |-> "strconv.Atoi", ports |-> {}]
               ELSE IF ~InRange(start.val) \/ ~InRange(end.val)
                    THEN [err |-> "port numbers must be in 1..65535", ports |-> {}]
               ELSE IF start.val > end.val
                    THEN [err |-> "range start greater than end", ports |-> {}]
               ELSE [err |-> "nil", ports |-> start.val..end.val]
       ELSE LET v == Atoi(p)
            IN IF ~v.ok THEN [err |-> "strconv.Atoi", ports |-> {}]
               ELSE IF ~InRange(v.val)
                    THEN [err |-> "port numbers must be in 1..65535", ports |-> {}]
               ELSE [err |-> "nil", ports |-> {v.val}]

\* parse.go 23-60: the tokens in order, stopping at the first error
RECURSIVE ParseTokens(_, _)
ParseTokens(parts, seen) ==
    IF parts = <<>> THEN [err |-> "nil", ports |-> seen]
    ELSE LET t == ParseToken(Head(parts))
         IN IF t.err # "nil" THEN [err |-> t.err, ports |-> {}]
            ELSE ParseTokens(Tail(parts), seen \cup t.ports)

SortIntsReversed(S) ==
    LET asc == Ascending(S) IN [i \in 1..Len(asc) |-> asc[Len(asc) + 1 - i]]

\* parse.go 61-69: the keys of the map, then sort.Ints
SortInts(S) == Ascending(S)

\* parse.go 16-71
ParsePortSpec(spec) ==
    LET str == TrimSpace(spec)
    IN IF str = <<>> THEN [ports |-> <<>>, err |-> "empty port spec"]
       ELSE LET r == ParseTokens(Split(str, ","), {})
            IN IF r.err # "nil" THEN [ports |-> <<>>, err |-> r.err]
               ELSE [ports |-> [i \in 1..Cardinality(r.ports) |->
                                   SortInts(r.ports)[i] % 65536],
                     err |-> "nil"]

\* ================================================================ errors
\* A Go error as the probes inspect it: Timeout() of a net.Error, the wrapper
\* chain (*net.OpError around *os.SyscallError or around a syscall.Errno),
\* the errno inside, and Error(); cause is what happened on the network.
NoErr == [cause |-> "none", timeout |-> FALSE, wrap |-> "none", errno |-> "none", text |-> <<>>]

MkErr(cause, timeout, wrap, errno, text) ==
    [cause |-> cause, timeout |-> timeout, wrap |-> wrap, errno |-> errno, text |-> text]

\* ECONNREFUSED as connect(2)/recv(2) report it on Unix
RefusedErrs(text) ==
    {MkErr("refused", FALSE, "op_syscall", "ECONNREFUSED", text),
     MkErr("refused", FALSE, "op_errno", "ECONNREFUSED", text)}

TimeoutErr == MkErr("timeout", TRUE, "op_plain", "none", S_io_timeout)
UnreachableErr == MkErr("unreachable", FALSE, "op_syscall", "ENETUNREACH", S_net_unreachable)

\* what net.DialTimeout("tcp", ...) can return besides nil; Windows reports
\* a refused connect as WSAECONNREFUSED, which is not syscall.ECONNREFUSED
TCPDialErrs ==
    RefusedErrs(S_dial_refused)
    \cup {MkErr("refused", FALSE, "op_syscall", "WSAECONNREFUSED", S_actively_refused),
          TimeoutErr, UnreachableErr}

\* ================================================================ probes
MaxMs == 1

States == {"open", "closed", "filtered", "open|filtered"}

\* port.PortResult as a probe builds it (type.go 21-33)
MkResult(ip, portNum, proto, state, rtt) ==
    [Target |-> "", IP |-> ip, Port |-> portNum, Proto |-> proto, State |-> state,
     Service |-> <<>>, ServiceBanner |-> <<>>, OSGuess |-> "", Confidence |-> "",
     Error |-> <<>>, RTTMillis |-> rtt]

\* ---------------------------------------------------------------- TCPScan
\* what the single net.DialTimeout of TCPScan can do: its error and the
\* elapsed milliseconds; the dial gives up once the timeout has passed
TCPEnvs(timeout) ==
    {[err |-> e, elapsed |-> t] :
        e \in {NoErr} \cup (TCPDialErrs \ {TimeoutErr}), t \in 0..timeout}
    \cup {[err |-> TimeoutErr, elapsed |-> t] : t \in timeout..MaxMs}

\* part_003 156-177: *net.OpError around ECONNREFUSED
OpErrRefused(e) ==
    e.wrap \in {"op_syscall", "op_errno"} /\ e.errno = "ECONNREFUSED"

TextRefusedNever(text) == FALSE

\* part_003 189-191: the substring fallback
TextRefused(text) ==
    text # <<>> /\ (Contains(text, S_refused) \/ Contains(text, S_connection_refused))

TCPScan(ip, portNum, net) ==
    LET res == MkResult(ip, portNum, "tcp", "filtered", net.elapsed)
        e == net.err
    IN IF e = NoErr THEN [res EXCEPT !.State = "open"]
       ELSE IF e.timeout THEN [res EXCEPT !.State = "filtered", !.Error = S_timeout]
       ELSE IF OpErrRefused(e)
            THEN [res EXCEPT !.State = "closed", !.Error = S_connection_refused]
       ELSE IF TextRefused(e.text) THEN [res EXCEPT !.State = "closed", !.Error = e.text]
       ELSE [res EXCEPT !.State = "filtered", !.Error = e.text]

\* ---------------------------------------------------------------- UDPScan
\* binary.BigEndian
PutUint16(v) == <<v \div 256, v % 256>>
Uint16(b, i) == b[i] * 256 + b[i + 1]

\* the labels of "example.com" as bytes
ExampleCom == << <<101, 120, 97, 109, 112, 108, 101>>, <<99, 111, 109>> >>

RECURSIVE EncodeDNSName(_)
EncodeDNSName(labels) ==
    IF labels = <<>> THEN <<0>>
    ELSE <<Len(Head(labels))>> \o Head(labels) \o EncodeDNSName(Tail(labels))

\* the query for a transaction id: header, QNAME, QTYPE=A, QCLASS=IN
BuildDNSQueryA(txid) ==
    PutUint16(txid) \o PutUint16(256) \o PutUint16(1) \o <<0, 0, 0, 0, 0, 0>>
    \o EncodeDNSName(ExampleCom) \o PutUint16(1) \o PutUint16(1)

\* the payload UDPScan sends and the transaction id it remembers
Payload(portNum, net) ==
    IF portNum = 53 /\ ~net.randErr THEN BuildDNSQueryA(net.txid) ELSE <<0>>
DnsTXID(portNum, net) ==
    IF portNum = 53 /\ ~net.randErr THEN net.txid ELSE 0

IsValidDNSResponse(pkt, wantTXID) ==
    IF Len(pkt) < 12 THEN FALSE
    ELSE IF Uint16(pkt, 1) # wantTXID THEN FALSE
    ELSE (Uint16(pkt, 3) \div 32768) % 2 = 1

IsConnRefusedErr(e) ==
    \/ e.wrap = "syscall" /\ e.errno = "ECONNREFUSED"
    \/ e.wrap \in {"op_syscall", "op_errno"} /\ e.errno = "ECONNREFUSED"
    \/ Contains(e.text, S_connection_refused)

UDPRefusedNever(e) == FALSE

\* the refusal test of the dial, write and read branches
UDPRefused(e) == Contains(e.text, S_connection_refused) \/ IsConnRefusedErr(e)

UDPInitialStateFiltered == "filtered"

UDPInitialState == "open|filtered"

RTTAfterReadZero(res, elapsed) == res

\* part_004 267-268: set before the read's outcome is looked at
RTTAfterRead(res, elapsed) == [res EXCEPT !.RTTMillis = elapsed]

UDPOnReplyStrict(res, portNum, pkt, wantTXID) ==
    IF portNum = 53 /\ ~IsValidDNSResponse(pkt, wantTXID)
    THEN [res EXCEPT !.Error = S_dns_not_validated]
    ELSE [res EXCEPT !.State = "open"]

\* part_004 270-296: data arrived
UDPOnReply(res, portNum, pkt, wantTXID) ==
    IF portNum = 53
    THEN IF IsValidDNSResponse(pkt, wantTXID)
         THEN [res EXCEPT !.State = "open"]
         ELSE [res EXCEPT !.State = "open", !.Error = S_dns_not_validated]
    ELSE [res EXCEPT !.State = "open"]

\* transaction ids crypto/rand can produce, and replies a peer can send
TxIds == {0, 4660}
DNSReply(txid, flags, len) ==
    SubSeq(PutUint16(txid) \o PutUint16(flags) \o <<0, 1, 0, 1, 0, 0, 0, 0>>, 1, len)
Replies(portNum) ==
    IF portNum = 53
    THEN {DNSReply(t, f, l) : t \in TxIds, f \in {256, 33152}, l \in {3, 12}}
    ELSE {<<0>>, <<104, 105>>}

MkUDPEnv(stage, e, pkt, elapsed, txid, randErr) ==
    [stage |-> stage, err |-> e, pkt |-> pkt, elapsed |-> elapsed,
     txid |-> txid, randErr |-> randErr]

\* what the network can do to one UDPScan call: the first step that fails,
\* or what conn.Read returns (n is the length of pkt)
UDPEnvs(portNum, timeout) ==
    LET ids == IF portNum = 53 THEN TxIds ELSE {0}
        rnd == IF portNum = 53 THEN BOOLEAN ELSE {FALSE}
    IN {MkUDPEnv("resolve", MkErr("resolve", FALSE, "dns", "none", S_no_such_host),
                 <<>>, 0, 0, FALSE)}
       \cup {MkUDPEnv("dial", e, <<>>, 0, 0, FALSE) :
                e \in RefusedErrs(S_dial_refused) \cup {UnreachableErr}}
       \cup {MkUDPEnv("deadline", MkErr("other", FALSE, "op_plain", "none", S_closed_conn),
                      <<>>, 0, 0, FALSE)}
       \cup {MkUDPEnv("write", e, <<>>, 0, t, r) :
                e \in RefusedErrs(S_write_refused) \cup {UnreachableErr, TimeoutErr},
                t \in ids, r \in rnd}
       \cup {MkUDPEnv("read", NoErr, pkt, ms, t, r) :
                pkt \in Replies(portNum) \cup {<<>>}, ms \in 0..timeout, t \in ids, r \in rnd}
       \cup {MkUDPEnv("read", e, <<>>, ms, t, r) :
                e \in RefusedErrs(S_read_refused)
                      \cup {MkErr("other", FALSE, "op_syscall", "EHOSTUNREACH", S_no_route)},
                ms \in 0..timeout, t \in ids, r \in rnd}
       \cup {MkUDPEnv("read", TimeoutErr, <<>>, ms, t, r) :
                ms \in timeout..MaxMs, t \in ids, r \in rnd}

UDPScan(ip, portNum, net) ==
    LET res == MkResult(ip, portNum, "udp", UDPInitialState, 0)
        e == net.err
        onErr == IF UDPRefused(e)
                 THEN [res EXCEPT !.State = "closed", !.Error = e.text]
                 ELSE [res EXCEPT !.Error = e.text]
        read == RTTAfterRead(res, net.elapsed)
    IN CASE net.stage = "resolve" -> [res EXCEPT !.Error = e.text]
         [] net.stage = "dial" -> onErr
         [] net.stage = "deadline" -> [res EXCEPT !.Error = e.text]
         [] net.stage = "write" -> onErr
         [] net.stage = "read" ->
              IF e = NoErr /\ Len(net.pkt) > 0
              THEN UDPOnReply(read, portNum, net.pkt, DnsTXID(portNum, net))
              ELSE IF e # NoErr /\ e.timeout
                   THEN [read EXCEPT !.State = "open|filtered", !.Error = S_timeout]
              ELSE IF e # NoErr
                   THEN IF UDPRefused(e)
                        THEN [read EXCEPT !.State = "closed", !.Error = e.text]
                        ELSE [read EXCEPT !.State = "open|filtered", !.Error = e.text]
              ELSE [read EXCEPT !.State = "open|filtered"]

\* ---------------------------------------------------------------- connections
\* net.Conn values a call obtains and closes, in order
StillOpen(evs) ==
    Cardinality({i \in DOMAIN evs : evs[i] = "open"})
    - Cardinality({i \in DOMAIN evs : evs[i] = "close"})

\* part_003 128-144: the connection of a successful dial is closed at once
TCPConnEvents(net) == IF net.err = NoErr THEN <<"open", "close">> ELSE <<>>

UDPConnEventsNoDefer(net) ==
    IF net.stage \in {"resolve", "dial"} THEN <<>>
    ELSE IF net.stage = "read" /\ net.err = NoErr THEN <<"open", "close">>
    ELSE <<"open">>

\* part_004 206-222: once DialUDP has succeeded, defer conn.Close() runs on
\* every return
UDPConnEvents(net) ==
    IF net.stage \in {"resolve", "dial"} THEN <<>> ELSE <<"open", "close">>

\* ---------------------------------------------------------------- StealthScan
\* netutil.CanOpenRawSocket: (true, nil) for root on Unix, (false, nil)
\* otherwise on Unix, (false, error) on Windows
PrivAnswers == {"ok", "no", "err"}

StealthScanFallback(ip, portNum, priv) ==
    IF priv = "ok" THEN MkResult(ip, portNum, "tcp", "open", 0)
    ELSE [MkResult(ip, portNum, "stealth", "filtered", 0) EXCEPT !.Error = S_need_priv]

StealthScan(ip, portNum, priv) ==
    LET res == MkResult(ip, portNum, "stealth", "filtered", 0)
    IN IF priv = "err" THEN [res EXCEPT !.Error = S_priv_check_error \o S_raw_windows]
       ELSE IF priv = "no" THEN [res EXCEPT !.Error = S_need_priv]
       ELSE [res EXCEPT !.Error = S_not_implemented]

\* ================================================================ detectors
K_windows == <<"w", "i", "n", "d", "o", "w", "s">>
K_microsoft == <<"m", "i", "c", "r", "o", "s", "o", "f", "t">>
K_mssql == <<"m", "s", "s", "q", "l">>
K_rdp == <<"r", "d", "p">>
K_iis == <<"i", "i", "s">>
K_winhttp == <<"w", "i", "n", "h", "t", "t", "p">>
K_linux == <<"l", "i", "n", "u", "x">>
K_ubuntu == <<"u", "b", "u", "n", "t", "u">>
K_debian == <<"d", "e", "b", "i", "a", "n">>
K_centos == <<"c", "e", "n", "t", "o", "s">>
K_red_sphat == <<"r", "e", "d", " ", "h", "a", "t">>
K_ssh == <<"s", "s", "h">>
K_sshd == <<"s", "s", "h", "d">>
K_nginx == <<"n", "g", "i", "n", "x">>
K_apache == <<"a", "p", "a", "c", "h", "e">>
K_http_sl == <<"h", "t", "t", "p", "/">>
K_mysql == <<"m", "y", "s", "q", "l">>
K_mariadb == <<"m", "a", "r", "i", "a", "d", "b">>
K_postgres == <<"p", "o", "s", "t", "g", "r", "e", "s">>
K_postgresql == <<"p", "o", "s", "t", "g", "r", "e", "s", "q", "l">>
K_cisco == <<"c", "i", "s", "c", "o">>
K_ios == <<"i", "o", "s">>
K_ubnt == <<"u", "b", "n", "t">>
K_router == <<"r", "o", "u", "t", "e", "r">>
K_firmware == <<"f", "i", "r", "m", "w", "a", "r", "e">>
K_ssh_da == <<"s", "s", "h", "-">>
K_n220_sp == <<"2", "2", "0", " ">>
K_dns == <<"d", "n", "s">>
K_http == <<"h", "t", "t", "p">>
K_http_slnginx == <<"h", "t", "t", "p", "/", "n", "g", "i", "n", "x">>
K_smtp == <<"s", "m", "t", "p">>

\* banners a listening service can answer with
B_ssh_ubuntu == <<"S", "S", "H", "-", "2", ".", "0", "-", "O", "p", "e", "n", "S", "S", "H", " ", "U", "b", "u", "n", "t", "u", "\r", "\n">>
B_ssh_windows == <<"S", "S", "H", "-", "2", ".", "0", "-", "O", "p", "e", "n", "S", "S", "H", "_", "f", "o", "r", "_", "W", "i", "n", "d", "o", "w", "s", "\r", "\n">>
B_iis == <<"H", "T", "T", "P", "/", "1", ".", "1", " ", "2", "0", "0", "\r", "\n", "S", "e", "r", "v", "e", "r", ":", " ", "M", "i", "c", "r", "o", "s", "o", "f", "t", "-", "I", "I", "S", "\r", "\n">>
B_nginx == <<"H", "T", "T", "P", "/", "1", ".", "1", " ", "2", "0", "0", "\r", "\n", "S", "e", "r", "v", "e", "r", ":", " ", "n", "g", "i", "n", "x", "\r", "\n">>
B_smtp == <<"2", "2", "0", " ", "m", "a", "i", "l", " ", "E", "S", "M", "T", "P", "\r", "\n">>
B_blank == <<" ", "\r", "\n">>
B_hello == <<"h", "e", "l", "l", "o">>

Banners == {B_ssh_ubuntu, B_ssh_windows, B_iis, B_nginx, B_smtp, B_blank, B_hello}

\* signatures.go 7-17
Signatures ==
    <<[Substr |-> K_ssh_da, Service |-> K_ssh, Confidence |-> "high"],
      [Substr |-> K_http_sl, Service |-> K_http, Confidence |-> "medium"],
      [Substr |-> K_nginx, Service |-> K_http_slnginx, Confidence |-> "high"],
      [Substr |-> K_n220_sp, Service |-> K_smtp, Confidence |-> "medium"],
      [Substr |-> K_dns, Service |-> K_dns, Confidence |-> "medium"]>>

DetectLastMatch(banner) ==
    LET lb == ToLower(banner)
        hits == {i \in DOMAIN Signatures : Contains(lb, ToLower(Signatures[i].Substr))}
    IN IF banner = <<>> \/ hits = {}
       THEN [service |-> <<>>, confidence |-> "", found |-> FALSE]
       ELSE LET i == CHOOSE k \in hits : \A j \in hits : j <= k
            IN [service |-> Signatures[i].Service,
                confidence |-> Signatures[i].Confidence, found |-> TRUE]

\* signatures.go 20-33: the first signature, in table order, found in the
\* lower-cased banner
Detect(banner) ==
    LET lb == ToLower(banner)
        hits == {i \in DOMAIN Signatures : Contains(lb, ToLower(Signatures[i].Substr))}
    IN IF banner = <<>> \/ hits = {}
       THEN [service |-> <<>>, confidence |-> "", found |-> FALSE]
       ELSE LET i == CHOOSE k \in hits : \A j \in hits : k <= j
            IN [service |-> Signatures[i].Service,
                confidence |-> Signatures[i].Confidence, found |-> TRUE]

\* what the detector's own connection can do: the dial's error, and the
\* bytes read (none when the peer stays silent)
NoSvc == [dialErr |-> NoErr, banner |-> <<>>]
SvcEnvs ==
    {[dialErr |-> NoErr, banner |-> b] : b \in Banners \cup {<<>>}}
    \cup {[dialErr |-> e, banner |-> <<>>] :
             e \in {MkErr("refused", FALSE, "op_syscall", "ECONNREFUSED", S_dial_refused),
                    TimeoutErr}}

\* service.go 25-84
DetectService(dcfg, res, svc) ==
    IF ~dcfg.ServiceDetect \/ res.State # "open" THEN res
    ELSE LET banner0 == TrimSpace(res.ServiceBanner)
             dials == banner0 = <<>> /\ res.Proto = "tcp"
             banner == IF dials /\ svc.dialErr = NoErr /\ Len(svc.banner) > 0
                       THEN TrimSpace(svc.banner) ELSE banner0
             res1 == IF dials /\ svc.dialErr # NoErr /\ dcfg.Verbose
                     THEN [res EXCEPT !.Error = S_svc_dial_error \o svc.dialErr.text]
                     ELSE res
             d == Detect(banner)
             res2 == IF d.found
                     THEN [res1 EXCEPT !.Service = d.service, !.Confidence = d.confidence]
                     ELSE res1
         IN IF banner # <<>> THEN [res2 EXCEPT !.ServiceBanner = banner] ELSE res1

\* does DetectService open its own connection for this result (service.go 34)
ServiceDials(res) == TrimSpace(res.ServiceBanner) = <<>> /\ res.Proto = "tcp"

\* service.go 41-44: defer conn.Close() after a successful dial
SvcConnEvents(res, svc) ==
    IF ServiceDials(res) /\ svc.dialErr = NoErr THEN <<"open", "close">> ELSE <<>>

AnyOf(b, subs) == \E x \in subs : Contains(b, x)
Pts(cond, n) == IF cond THEN n ELSE 0

\* os.go 44-92: the points one result adds to every bucket
Score(r) ==
    LET b == ToLower(TrimSpace(r.ServiceBanner \o <<" ">> \o r.Service))
    IN [windows |->
            Pts(AnyOf(b, {K_windows, K_microsoft, K_mssql}), 3)
            + Pts(Contains(b, K_rdp) \/ r.Port = 3389, 4)
            + Pts(AnyOf(b, {K_iis, K_winhttp}), 2)
            + Pts(r.Port = 3389, 4) + Pts(r.Port \in {135, 139, 445}, 3),
        linux |->
            Pts(AnyOf(b, {K_linux, K_ubuntu, K_debian, K_centos, K_red_sphat}), 3)
            + Pts(AnyOf(b, {K_ssh, K_sshd}), 2)
            + Pts(AnyOf(b, {K_nginx, K_apache, K_http_sl}), 2)
            + Pts(AnyOf(b, {K_mysql, K_mariadb, K_postgres, K_postgresql}), 2)
            + Pts(r.Port \in {22, 80, 443, 3306, 5432}, 1),
        embedded |->
            Pts(AnyOf(b, {K_cisco, K_ios, K_ubnt, K_router, K_firmware}), 3)
            + Pts(r.Port \in {1900, 5000}, 1)]

RECURSIVE Scores(_)
Scores(results) ==
    IF results = <<>> THEN [windows |-> 0, linux |-> 0, embedded |-> 0]
    ELSE LET h == Score(Head(results))
             t == Scores(Tail(results))
         IN [windows |-> h.windows + t.windows, linux |-> h.linux + t.linux,
             embedded |-> h.embedded + t.embedded]

OSName(key) ==
    IF key = "windows" THEN "Windows" ELSE IF key = "linux" THEN "Linux" ELSE "embedded"

OSConfHighFromSeven(score) ==
    IF score >= 7 THEN "high" ELSE IF score >= 3 THEN "medium" ELSE "low"

\* os.go 108-114
OSConf(score) == IF score >= 6 THEN "high" ELSE IF score >= 3 THEN "medium" ELSE "low"

\* os.go 13-127: every <<guess, confidence>> DetectOS can return; the tally
\* ranges over a Go map, whose order varies from run to run, and keeps the
\* first bucket it meets with the highest score
DetectOS(results) ==
    LET sc == Scores(results)
        keys == {"windows", "linux", "embedded"}
        top == {k \in keys : sc[k] > 0 /\ \A j \in keys : sc[j] <= sc[k]}
    IN IF results = <<>> \/ top = {} THEN {<<"", "">>}
       ELSE {<<OSName(k), OSConf(sc[k])>> : k \in top}

\* os.go 131-133
DetectOSForResult(r) == DetectOS(<<r>>)

SvcGuardFlagOnly(res, c) == c.ServiceDetect

\* manager.go 109, 143, 176
SvcGuard(res, c) == res.State = "open" /\ c.ServiceDetect

\* manager.go 119, 153, 186
OSGuard(res, c) == res.State = "open" /\ c.OSDetect

ApplyOSGuessOnly(res, o) ==
    IF o[1] # "" THEN [res EXCEPT !.OSGuess = o[1]] ELSE res

\* manager.go 120-124, 154-157, 187-190: a non-empty guess is stored with
\* its confidence
ApplyOS(res, o) ==
    IF o[1] # "" THEN [res EXCEPT !.OSGuess = o[1], !.Confidence = o[2]] ELSE res

AfterDetectSkipFailed(res) == IF res.Error # <<>> THEN "continue" ELSE "publish"

\* manager.go 127-131, 160-164, 193-197: the publish select always follows
AfterDetect(res) == "publish"

\* ---------------------------------------------------------------- state
VARIABLES
    cfg,            \* Manager.cfg
    argv,           \* scan flags in the order the caller gave them
    canOpenRaw,     \* what netutil.CanOpenRawSocket reports
    runPc,          \* "init" | "running" | "failed": Manager.Run's return
    err,            \* error returned by Run
    cancelled,      \* ctx.Done() is closed
    jobChan,        \* buffered job queue
    jobsClosed,     \* close(jobChan) was executed
    resultsChan,    \* buffered result channel
    closeCount,     \* number of close(resultsChan) executions
    panicked,       \* a send on, or a second close of, the closed channel
    wg,             \* sync.WaitGroup counter
    wpc,            \* position of every worker goroutine
    wjob,           \* job a worker holds
    widx,           \* index of the protocol the worker is at
    wres,           \* result a worker is about to publish
    dpc,            \* position of the dispatcher goroutine
    dnext,          \* index of the next job to enqueue
    pubAfterCancel, \* per worker: results sent after ctx was cancelled
    deqCount,       \* per port: how often its job was received from jobChan
    pin,            \* one probe call: its arguments and what the network does
    ppc,            \* one probe call: position in the worker's protocol body
    pctx,           \* one probe call: ctx.Done() is closed
    pres,           \* one probe call: the PortResult being built
    plog,           \* one probe call: calls made and events seen, in order
    pconns,         \* one probe call: connections opened and not yet closed
    mainResults,    \* main: the results collected from the channel
    osDetect,       \* main: the -os-detect flag
    osLine,         \* main: the OS line it prints
    specTokens,     \* ParsePortSpec: the tokens the -p text was written from
    portsSpec,      \* ParsePortSpec: the -p text
    parsed,         \* ParsePortSpec: what it returned
    waPath,         \* WriteAtomic: the final path
    waData,         \* WriteAtomic: the bytes to write
    waOrig,         \* WriteAtomic: what the final path held when it was called
    fsys,           \* WriteAtomic: the directory, the final file and the temp file
    waPc,           \* WriteAtomic: its position
    waErr,          \* WriteAtomic: what it returned
    rTarget,        \* ResolveTargetToIPv4: the target text, with what it was written as
    rLookup,        \* ResolveTargetToIPv4: what net.LookupIP answers
    rOut            \* ResolveTargetToIPv4: what it returned

vars == <<cfg, argv, canOpenRaw, runPc, err, cancelled, jobChan, jobsClosed,
          resultsChan, closeCount, panicked, wg, wpc, wjob, widx, wres,
          dpc, dnext, pubAfterCancel, deqCount, pin, ppc, pctx, pres, plog,
          pconns, mainResults, osDetect, osLine,
          specTokens, portsSpec, parsed,
          waPath, waData, waOrig, fsys, waPc, waErr,
          rTarget, rLookup, rOut>>

probeVars == <<pin, ppc, pctx, pres, plog, pconns>>

osVars == <<mainResults, osDetect, osLine>>

parseVars == <<specTokens, portsSpec, parsed>>

writeVars == <<waPath, waData, waOrig, fsys, waPc, waErr>>

resolveVars == <<rTarget, rLookup, rOut>>

\* what main does around the scan
cliVars == <<osVars, parseVars, writeVars, resolveVars>>

envVars == <<cfg, argv, canOpenRaw>>
workerVars == <<wpc, wjob, widx, wres>>

\* no probe call is under study in the scheduling specifications
ProbeIdle ==
    /\ pin = NoCall
    /\ ppc = "idle"
    /\ pctx = FALSE
    /\ pres = NoResult
    /\ plog = <<>>
    /\ pconns = 0

NoLine == [kind |-> "", guess |-> "", conf |-> ""]

\* main has not collected anything yet
OSIdle ==
    /\ mainResults = <<>>
    /\ osDetect = FALSE
    /\ osLine = NoLine

NoParse == [ports |-> <<>>, err |-> "not called"]

\* ParsePortSpec is not under study
ParseIdle ==
    /\ specTokens = <<>>
    /\ portsSpec = <<>>
    /\ parsed = NoParse

\* a path that names no file, and a file with its content
Absent == [exists |-> FALSE, content |-> <<>>]
File(c) == [exists |-> TRUE, content |-> c]

\* WriteAtomic is not under study
WriteIdle ==
    /\ waPath = <<>>
    /\ waData = <<>>
    /\ waOrig = Absent
    /\ fsys = [dir |-> TRUE, final |-> Absent, tmp |-> Absent]
    /\ waPc = "idle"
    /\ waErr = ""

NoResolve == [ip |-> <<>>, err |-> "not called"]

\* ResolveTargetToIPv4 is not under study
ResolveIdle ==
    /\ rTarget = [class |-> "", text |-> <<>>]
    /\ rLookup = [failed |-> FALSE, ips |-> <<>>]
    /\ rOut = NoResolve

CliIdle == OSIdle /\ ParseIdle /\ WriteIdle /\ ResolveIdle

Init ==
    /\ argv \in ArgvSet
    /\ \E t \in Targets, ip \in IPs, ps \in PortLists, n \in -1..MaxWorkers :
          cfg = MakeConfig(t, ip, ps, argv, n)
    /\ canOpenRaw \in BOOLEAN
    /\ runPc = "init"
    /\ err = "nil"
    /\ cancelled = FALSE
    /\ jobChan = <<>>
    /\ jobsClosed = FALSE
    /\ resultsChan = <<>>
    /\ closeCount = 0
    /\ panicked = FALSE
    /\ wg = 0
    /\ wpc = [w \in Workers |-> "off"]
    /\ wjob = [w \in Workers |-> NoJob]
    /\ widx = [w \in Workers |-> 0]
    /\ wres = [w \in Workers |-> NoResult]
    /\ dpc = "off"
    /\ dnext = 1
    /\ pubAfterCancel = [w \in Workers |-> 0]
    /\ deqCount = [p \in 1..MaxPort |-> 0]
    /\ ProbeIdle
    /\ CliIdle

\* ---------------------------------------------------------------- context
\* the caller cancels the context handed to Run
Cancel ==
    /\ ~cancelled
    /\ cancelled' = TRUE
    /\ UNCHANGED <<envVars, runPc, err, jobChan, jobsClosed, resultsChan,
                   closeCount, panicked, wg, workerVars, dpc, dnext,
                   pubAfterCancel,
                   deqCount, probeVars, cliVars>>

\* ---------------------------------------------------------------- Manager.Run
\* manager.go 45-50: invalid config, Run returns (nil, error)
RunReject ==
    /\ runPc = "init"
    /\ ValidateConfig(cfg) # "nil"
    /\ runPc' = "failed"
    /\ err' = ValidateConfig(cfg)
    /\ UNCHANGED <<envVars, cancelled, jobChan, jobsClosed, resultsChan,
                   closeCount, panicked, wg, workerVars, dpc, dnext,
                   pubAfterCancel,
                   deqCount, probeVars, cliVars>>

\* manager.go 52-243: channels made, workers and dispatcher started,
\* Run returns (resultsChan, nil)
RunStart ==
    /\ runPc = "init"
    /\ ValidateConfig(cfg) = "nil"
    /\ runPc' = "running"
    /\ err' = "nil"
    /\ wpc' = [w \in Workers |-> IF w <= NumWorkers(cfg) THEN "select" ELSE "off"]
    /\ wg' = Cardinality({w \in Workers : w <= NumWorkers(cfg)})
    /\ dpc' = "enqueue"
    /\ dnext' = 1
    /\ UNCHANGED <<envVars, cancelled, jobChan, jobsClosed, resultsChan,
                   closeCount, panicked, wjob, widx, wres,
                   pubAfterCancel,
                   deqCount, probeVars, cliVars>>

\* ---------------------------------------------------------------- workers
\* manager.go 85-87: outer select takes <-ctx.Done(); deferred wg.Done()
WorkerSelectDone(w) ==
    /\ wpc[w] = "select"
    /\ cancelled
    /\ wpc' = [wpc EXCEPT ![w] = "done"]
    /\ wg' = wg - 1
    /\ UNCHANGED <<envVars, runPc, err, cancelled, jobChan, jobsClosed,
                   resultsChan, closeCount, panicked, wjob, widx, wres,
                   dpc, dnext, pubAfterCancel,
                   deqCount, probeVars, cliVars>>

\* manager.go 88-93: outer select receives a job
WorkerRecv(w) ==
    /\ wpc[w] = "select"
    /\ jobChan # <<>>
    /\ jobChan' = Tail(jobChan)
    /\ wjob' = [wjob EXCEPT ![w] = Head(jobChan)]
    /\ widx' = [widx EXCEPT ![w] = 1]
    /\ deqCount' = [deqCount EXCEPT ![Head(jobChan).Port] = @ + 1]
    /\ wpc' = [wpc EXCEPT ![w] =
                 IF Len(Head(jobChan).ScanTypes) = 0 THEN "select" ELSE "check"]
    /\ UNCHANGED <<envVars, runPc, err, cancelled, jobsClosed, resultsChan,
                   closeCount, panicked, wg, wres, dpc, dnext, pubAfterCancel,
                   probeVars, cliVars>>

\* manager.go 88-91: receive on the closed, drained queue; deferred wg.Done()
WorkerRecvClosed(w) ==
    /\ wpc[w] = "select"
    /\ jobChan = <<>>
    /\ jobsClosed
    /\ wpc' = [wpc EXCEPT ![w] = "done"]
    /\ wg' = wg - 1
    /\ UNCHANGED <<envVars, runPc, err, cancelled, jobChan, jobsClosed,
                   resultsChan, closeCount, panicked, wjob, widx, wres,
                   dpc, dnext, pubAfterCancel,
                   deqCount, probeVars, cliVars>>

\* manager.go 94-104, 139, 172: poll ctx, then call the probe for this protocol
WorkerCheck(w) ==
    /\ wpc[w] = "check"
    /\ IF CheckDone(cancelled)
         THEN /\ wpc' = [wpc EXCEPT ![w] = "done"]
              /\ wg' = wg - 1
         ELSE /\ wpc' = [wpc EXCEPT ![w] = "probe"]
              /\ wg' = wg
    /\ UNCHANGED <<envVars, runPc, err, cancelled, jobChan, jobsClosed,
                   resultsChan, closeCount, panicked, wjob, widx, wres,
                   dpc, dnext, pubAfterCancel,
                   deqCount, probeVars, cliVars>>

\* manager.go 104-125, 139-158, 172-191, 201-207: the probe returns its result
WorkerProbeReturn(w) ==
    /\ wpc[w] = "probe"
    /\ wres' = [wres EXCEPT ![w] = ProbeResult(wjob[w], wjob[w].ScanTypes[widx[w]])]
    /\ wpc' = [wpc EXCEPT ![w] = "publish"]
    /\ UNCHANGED <<envVars, runPc, err, cancelled, jobChan, jobsClosed,
                   resultsChan, closeCount, panicked, wg, wjob, widx,
                   dpc, dnext, pubAfterCancel,
                   deqCount, probeVars, cliVars>>

\* manager.go 127-129, 160-162, 193-195, 208-210: publish select takes <-ctx.Done()
WorkerPublishDone(w) ==
    /\ wpc[w] = "publish"
    /\ cancelled
    /\ wpc' = [wpc EXCEPT ![w] = "done"]
    /\ wg' = wg - 1
    /\ UNCHANGED <<envVars, runPc, err, cancelled, jobChan, jobsClosed,
                   resultsChan, closeCount, panicked, wjob, widx, wres,
                   dpc, dnext, pubAfterCancel,
                   deqCount, probeVars, cliVars>>

\* manager.go 130-132, 163-165, 196-198, 211: publish select sends the result
WorkerPublishSend(w) ==
    /\ wpc[w] = "publish"
    /\ Len(resultsChan) < ResultsChanCap(cfg)
    /\ IF closeCount > 0
         THEN /\ panicked' = TRUE
              /\ resultsChan' = resultsChan
         ELSE /\ panicked' = panicked
              /\ resultsChan' = Append(resultsChan, wres[w])
    /\ pubAfterCancel' = [pubAfterCancel EXCEPT ![w] = @ + (IF cancelled THEN 1 ELSE 0)]
    /\ wpc' = [wpc EXCEPT ![w] = AfterPublish(wjob[w], widx[w])]
    /\ widx' = [widx EXCEPT ![w] = @ + 1]
    /\ UNCHANGED <<envVars, runPc, err, cancelled, jobChan, jobsClosed,
                   closeCount, wg, wjob, wres, dpc, dnext,
                   deqCount, probeVars, cliVars>>

WorkerStep(w) ==
    \/ WorkerSelectDone(w)
    \/ WorkerRecv(w)
    \/ WorkerRecvClosed(w)
    \/ WorkerCheck(w)
    \/ WorkerProbeReturn(w)
    \/ WorkerPublishDone(w)
    \/ WorkerPublishSend(w)

\* ---------------------------------------------------------------- dispatcher
\* manager.go 222-235: one iteration of the enqueue loop; the break at 225
\* leaves only the select, so the send at 234 is executed in every iteration
DispatcherEnqueue ==
    /\ dpc = "enqueue"
    /\ dnext <= Len(Jobs(cfg))
    /\ Len(jobChan) < JobChanCap(cfg)
    /\ jobChan' = Append(jobChan, Jobs(cfg)[dnext])
    /\ dnext' = dnext + 1
    /\ UNCHANGED <<envVars, runPc, err, cancelled, jobsClosed, resultsChan,
                   closeCount, panicked, wg, workerVars, dpc, pubAfterCancel,
                   deqCount, probeVars, cliVars>>

\* manager.go 236
DispatcherCloseJobs ==
    /\ dpc = "enqueue"
    /\ dnext > Len(Jobs(cfg))
    /\ jobsClosed' = TRUE
    /\ dpc' = "wait"
    /\ UNCHANGED <<envVars, runPc, err, cancelled, jobChan, resultsChan,
                   closeCount, panicked, wg, workerVars, dnext, pubAfterCancel,
                   deqCount, probeVars, cliVars>>

\* manager.go 238
DispatcherWait ==
    /\ dpc = "wait"
    /\ WaitReady(wg)
    /\ dpc' = "closeResults"
    /\ UNCHANGED <<envVars, runPc, err, cancelled, jobChan, jobsClosed,
                   resultsChan, closeCount, panicked, wg, workerVars, dnext,
                   pubAfterCancel,
                   deqCount, probeVars, cliVars>>

\* manager.go 240
DispatcherCloseResults ==
    /\ dpc = "closeResults"
    /\ closeCount' = closeCount + 1
    /\ panicked' = (panicked \/ closeCount > 0)
    /\ dpc' = "done"
    /\ UNCHANGED <<envVars, runPc, err, cancelled, jobChan, jobsClosed,
                   resultsChan, wg, workerVars, dnext, pubAfterCancel,
                   deqCount, probeVars, cliVars>>

Dispatcher ==
    \/ DispatcherEnqueue
    \/ DispatcherCloseJobs
    \/ DispatcherWait
    \/ DispatcherCloseResults

Next ==
    \/ Cancel
    \/ RunReject
    \/ RunStart
    \/ \E w \in Workers : WorkerSelectDone(w)
    \/ \E w \in Workers : WorkerRecv(w)
    \/ \E w \in Workers : WorkerRecvClosed(w)
    \/ \E w \in Workers : WorkerCheck(w)
    \/ \E w \in Workers : WorkerProbeReturn(w)
    \/ \E w \in Workers : WorkerPublishDone(w)
    \/ \E w \in Workers : WorkerPublishSend(w)
    \/ DispatcherEnqueue
    \/ DispatcherCloseJobs
    \/ DispatcherWait
    \/ DispatcherCloseResults

Spec == Init /\ [][Next]_vars

\* goroutines that can run are eventually run by the Go scheduler
\* scheduling does not read the flag order or the privilege answer: the
\* fairness runs take the flags in command-line order -s -tcp -udp
InitFair ==
    /\ Init
    /\ canOpenRaw
    /\ argv = [i \in DOMAIN argv |->
                IF ScanTypesOf(cfg)[i] = "stealth" THEN "s" ELSE ScanTypesOf(cfg)[i]]

FairSpec ==
    /\ InitFair
    /\ [][Next]_vars
    /\ WF_vars(RunReject \/ RunStart)
    /\ \A w \in Workers : WF_vars(WorkerStep(w))
    /\ WF_vars(Dispatcher)

\* ================================================================ one probe call
\* The worker's body for one protocol of one job (manager.go 93-199) with the
\* content of the result: the scheduling variables stay as Run left them for
\* a single worker and only pin, ppc, pctx, pres and plog move.
schedVars == <<cfg, argv, canOpenRaw, runPc, err, cancelled, jobChan, jobsClosed,
               resultsChan, closeCount, panicked, wg, wpc, wjob, widx, wres,
               dpc, dnext, pubAfterCancel, deqCount>>

ProbePorts == {22, 53, 80}

DetectFlags == [ServiceDetect : BOOLEAN, OSDetect : BOOLEAN, Verbose : BOOLEAN]

\* the protocol lists Run can build, each with every position in it
ProbeJobs ==
    {[job |-> [Target |-> "host", IP |-> "10.0.0.1", Port |-> p, ScanTypes |-> sts],
      idx |-> i] :
        p \in ProbePorts,
        sts \in {<<"tcp">>, <<"udp">>, <<"stealth">>, <<"stealth", "tcp", "udp">>},
        i \in 1..3}

InitProbe ==
    /\ argv = <<"tcp">>
    /\ cfg = MakeConfig("host", "10.0.0.1", <<1>>, argv, 1)
    /\ canOpenRaw = TRUE
    /\ runPc = "running"
    /\ err = "nil"
    /\ cancelled = FALSE
    /\ jobChan = <<>>
    /\ jobsClosed = TRUE
    /\ resultsChan = <<>>
    /\ closeCount = 0
    /\ panicked = FALSE
    /\ wg = 1
    /\ wpc = [w \in Workers |-> IF w = 1 THEN "check" ELSE "off"]
    /\ wjob = [w \in Workers |-> IF w = 1 THEN MakeJob(cfg, 1) ELSE NoJob]
    /\ widx = [w \in Workers |-> IF w = 1 THEN 1 ELSE 0]
    /\ wres = [w \in Workers |-> NoResult]
    /\ dpc = "wait"
    /\ dnext = 2
    /\ pubAfterCancel = [w \in Workers |-> 0]
    /\ deqCount = [p \in 1..MaxPort |-> IF p = 1 THEN 1 ELSE 0]
    /\ \E j \in ProbeJobs, t \in 1..MaxMs, f \in DetectFlags :
          /\ j.idx <= Len(j.job.ScanTypes)
          /\ pin = [job |-> j.job, idx |-> j.idx, timeout |-> t, flags |-> f]
    /\ ppc = "check"
    /\ pctx = FALSE
    /\ pres = NoResult
    /\ plog = <<>>
    /\ pconns = 0
    /\ CliIdle

ScanType == pin.job.ScanTypes[pin.idx]

Log(ev, arg) == Append(plog, [ev |-> ev, arg |-> arg])

\* what ends the blocking call: net.DialTimeout, conn.Write and conn.Read
\* return on the network's answer or on their own deadline, and no probe
\* reads the ctx it is handed (part_003 125-129, part_004 187-266)
ReturnCause(e) == IF e.timeout THEN "timeout" ELSE "network"

\* a call logged with what its own connection attempt did
LogEnv(ev, arg, env) == Append(plog, [ev |-> ev, arg |-> arg, env |-> env])

LogReturn(arg, why) == Append(plog, [ev |-> "return", arg |-> arg, why |-> why])

\* the context handed to Run is cancelled while the body runs
PCancel ==
    /\ ppc \in {"check", "probe", "service", "os", "publish"}
    /\ ~pctx
    /\ pctx' = TRUE
    /\ plog' = Log("cancel", ppc)
    /\ UNCHANGED <<schedVars, cliVars, pconns, pin, ppc, pres>>

\* manager.go 94-104, 139, 172: poll ctx, then call the probe
PCheck ==
    /\ ppc = "check"
    /\ IF CheckDone(pctx)
         THEN /\ ppc' = "done"
              /\ plog' = plog
         ELSE /\ ppc' = "probe"
              /\ plog' = Log("call", ScanType)
    /\ UNCHANGED <<schedVars, cliVars, pconns, pin, pctx, pres>>

\* manager.go 104-106 and part_003 125-206: TCPScan returns
PReturnTCP ==
    /\ ppc = "probe"
    /\ ScanType = "tcp"
    /\ \E net \in TCPEnvs(pin.timeout) :
          /\ pres' = [TCPScan(pin.job.IP, pin.job.Port, net) EXCEPT !.Target = pin.job.Target]
          /\ plog' = LogReturn(net, ReturnCause(net.err))
          /\ pconns' = pconns + StillOpen(TCPConnEvents(net))
    /\ ppc' = "service"
    /\ UNCHANGED <<schedVars, cliVars, pin, pctx>>

\* manager.go 139-140 and part_004 187-328: UDPScan returns
PReturnUDP ==
    /\ ppc = "probe"
    /\ ScanType = "udp"
    /\ \E net \in UDPEnvs(pin.job.Port, pin.timeout) :
          /\ pres' = [UDPScan(pin.job.IP, pin.job.Port, net) EXCEPT !.Target = pin.job.Target]
          /\ plog' = LogReturn(net, ReturnCause(net.err))
          /\ pconns' = pconns + StillOpen(UDPConnEvents(net))
    /\ ppc' = "service"
    /\ UNCHANGED <<schedVars, cliVars, pin, pctx>>

\* manager.go 172-173 and part_003 85-107: StealthScan returns
PReturnStealth ==
    /\ ppc = "probe"
    /\ ScanType = "stealth"
    /\ \E priv \in PrivAnswers :
          /\ pres' = [StealthScan(pin.job.IP, pin.job.Port, priv) EXCEPT !.Target = pin.job.Target]
          /\ plog' = LogReturn(priv, "privilege")
    /\ ppc' = "service"
    /\ UNCHANGED <<schedVars, cliVars, pconns, pin, pctx>>

\* manager.go 109-116, 143-150, 176-183
PService ==
    /\ ppc = "service"
    /\ IF SvcGuard(pres, pin.flags)
         THEN \E svc \in (IF ServiceDials(pres) THEN SvcEnvs ELSE {NoSvc}) :
                 /\ pres' = DetectService(pin.flags, pres, svc)
                 /\ plog' = LogEnv("DetectService", pres, svc)
                 /\ pconns' = pconns + StillOpen(SvcConnEvents(pres, svc))
         ELSE /\ pres' = pres
              /\ plog' = plog
              /\ pconns' = pconns
    /\ ppc' = "os"
    /\ UNCHANGED <<schedVars, cliVars, pin, pctx>>

\* manager.go 119-125, 153-158, 186-191
PDetectOS ==
    /\ ppc = "os"
    /\ IF OSGuard(pres, pin.flags)
         THEN \E o \in DetectOSForResult(pres) :
                 /\ pres' = ApplyOS(pres, o)
                 /\ plog' = Log("DetectOS", pres)
                 /\ ppc' = AfterDetect(pres')
         ELSE /\ pres' = pres
              /\ plog' = plog
              /\ ppc' = AfterDetect(pres)
    /\ UNCHANGED <<schedVars, cliVars, pconns, pin, pctx>>

\* manager.go 127-129, 160-162, 193-195: the publish select takes <-ctx.Done()
PPublishDone ==
    /\ ppc = "publish"
    /\ pctx
    /\ ppc' = "done"
    /\ UNCHANGED <<schedVars, cliVars, pconns, pin, pctx, pres, plog>>

\* manager.go 130-132, 163-165, 196-198: the result is sent, then continue
PPublishSend ==
    /\ ppc = "publish"
    /\ plog' = Log("send", pres)
    /\ ppc' = "continue"
    /\ UNCHANGED <<schedVars, cliVars, pconns, pin, pctx, pres>>

NextProbe ==
    \/ PCancel
    \/ PCheck
    \/ PReturnTCP
    \/ PReturnUDP
    \/ PReturnStealth
    \/ PService
    \/ PDetectOS
    \/ PPublishDone
    \/ PPublishSend

ProbeSpec == InitProbe /\ [][NextProbe]_vars

\* ================================================================ main: the OS line
\* main.go 95-111 on its own: the results of a run are collected from the
\* channel and one OS line is computed for the target.
MaxResults == 2

\* results a run can publish: probe results, the open ones enriched by the
\* service detector
ResultPool ==
    {DetectService([ServiceDetect |-> TRUE, Verbose |-> FALSE],
                   TCPScan("10.0.0.1", 22, [err |-> NoErr, elapsed |-> 0]),
                   [dialErr |-> NoErr, banner |-> B_ssh_ubuntu]),
     TCPScan("10.0.0.1", 80, [err |-> NoErr, elapsed |-> 1]),
     TCPScan("10.0.0.1", 3389, [err |-> UnreachableErr, elapsed |-> 0]),
     TCPScan("10.0.0.1", 445, [err |-> TimeoutErr, elapsed |-> 1]),
     TCPScan("10.0.0.1", 5000,
             [err |-> MkErr("refused", FALSE, "op_syscall", "ECONNREFUSED", S_dial_refused),
              elapsed |-> 0]),
     UDPScan("10.0.0.1", 1900, MkUDPEnv("read", TimeoutErr, <<>>, 1, 0, FALSE)),
     UDPScan("10.0.0.1", 53, MkUDPEnv("read", NoErr, DNSReply(4660, 33152, 12), 1, 4660, FALSE)),
     StealthScan("10.0.0.1", 22, "no")}

\* Run has not been called: the variables of the scan stay as they are here
SchedOff ==
    /\ argv = <<"tcp">>
    /\ cfg = MakeConfig("host", "10.0.0.1", <<1>>, argv, 1)
    /\ canOpenRaw = TRUE
    /\ runPc = "init"
    /\ err = "nil"
    /\ cancelled = FALSE
    /\ jobChan = <<>>
    /\ jobsClosed = FALSE
    /\ resultsChan = <<>>
    /\ closeCount = 0
    /\ panicked = FALSE
    /\ wg = 0
    /\ wpc = [w \in Workers |-> "off"]
    /\ wjob = [w \in Workers |-> NoJob]
    /\ widx = [w \in Workers |-> 0]
    /\ wres = [w \in Workers |-> NoResult]
    /\ dpc = "off"
    /\ dnext = 1
    /\ pubAfterCancel = [w \in Workers |-> 0]
    /\ deqCount = [p \in 1..MaxPort |-> 0]

InitOSLine ==
    /\ SchedOff
    /\ ProbeIdle
    /\ ParseIdle
    /\ WriteIdle
    /\ ResolveIdle
    /\ mainResults = <<>>
    /\ osDetect \in BOOLEAN
    /\ osLine = NoLine

\* main.go 96-99: one more result is read from the channel
MainCollect ==
    /\ osLine = NoLine
    /\ Len(mainResults) < MaxResults
    /\ \E r \in ResultPool :
          /\ \A i \in DOMAIN mainResults :
                mainResults[i].Port # r.Port \/ mainResults[i].Proto # r.Proto
          /\ mainResults' = Append(mainResults, r)
    /\ UNCHANGED <<schedVars, probeVars, parseVars, writeVars, resolveVars, osDetect, osLine>>

LineOf(o) ==
    IF o[1] # "" THEN [kind |-> "guess", guess |-> o[1], conf |-> o[2]]
    ELSE [kind |-> "unknown", guess |-> "", conf |-> ""]

\* main.go 101-111: the channel is closed, the OS line is computed
MainOSLine ==
    /\ osLine = NoLine
    /\ IF osDetect
         THEN \E o \in DetectOS(mainResults) : osLine' = LineOf(o)
         ELSE osLine' = [kind |-> "disabled", guess |-> "", conf |-> ""]
    /\ UNCHANGED <<schedVars, probeVars, parseVars, writeVars, resolveVars, mainResults, osDetect>>

NextOSLine == MainCollect \/ MainOSLine

OSLineSpec == InitOSLine /\ [][NextOSLine]_vars

\* ================================================================ the -p text
\* ParsePortSpec applied to port specs written from tokens: single ports,
\* ranges, empty tokens and words, each possibly padded with blanks.
MaxTokens == 2
MaxSpan == 2

PortNumbers == {0, 1, 2, 3, 4, 65535, 65536}

Single(a, pad) == [kind |-> "single", a |-> a, b |-> a, pad |-> pad, text |-> <<>>]
Range(a, b, pad) == [kind |-> "range", a |-> a, b |-> b, pad |-> pad, text |-> <<>>]
Word(text) == [kind |-> "word", a |-> 0, b |-> 0, pad |-> FALSE, text |-> text]
Signed(a) == [kind |-> "signed", a |-> a, b |-> a, pad |-> FALSE, text |-> <<>>]

\* what the token names, by the grammar of the -p flag
TokValid(t) ==
    /\ t.kind \in {"single", "range"}
    /\ t.a >= 1 /\ t.a <= t.b /\ t.b <= 65535
TokPorts(t) == t.a..t.b

Tokens ==
    {Single(a, FALSE) : a \in PortNumbers}
    \cup {Single(2, TRUE)}
    \cup {Range(a, b, FALSE) : a, b \in PortNumbers}
    \cup {Range(1, 2, TRUE)}
    \cup {Word(<<>>), Word(<<" ">>), Word(<<"a", "b", "c">>), Word(<<"2", "a">>),
          Word(<<"-">>), Word(<<"1", "-", "2", "-", "3">>), Word(<<"-", "1">>),
          Word(<<"2", "-">>)}
    \cup {Signed(2)}

\* ranges that would name more than MaxSpan + 1 ports are left out
TokenSet == {t \in Tokens : TokValid(t) => t.b - t.a <= MaxSpan}

Pad(str, pad) == IF pad THEN <<" ">> \o str \o <<" ">> ELSE str

\* the text of a token
Render(t) ==
    IF t.kind = "word" THEN t.text
    ELSE IF t.kind = "signed" THEN <<"+">> \o Itoa(t.a)
    ELSE IF t.kind = "single" THEN Pad(Itoa(t.a), t.pad)
    ELSE Pad(Itoa(t.a), t.pad) \o <<"-">> \o Pad(Itoa(t.b), t.pad)

\* the tokens joined by commas
RECURSIVE Join(_)
Join(toks) ==
    IF toks = <<>> THEN <<>>
    ELSE IF Len(toks) = 1 THEN Render(toks[1])
    ELSE Render(toks[1]) \o <<",">> \o Join(Tail(toks))

InitParse ==
    /\ SchedOff
    /\ ProbeIdle
    /\ OSIdle
    /\ WriteIdle
    /\ ResolveIdle
    /\ specTokens \in UNION {[1..n -> TokenSet] : n \in 0..MaxTokens}
    /\ portsSpec = Join(specTokens)
    /\ parsed = NoParse

\* main.go 52: ports, err := port.ParsePortSpec(*portsSpec)
ParsePortSpecCall ==
    /\ parsed = NoParse
    /\ parsed' = ParsePortSpec(portsSpec)
    /\ UNCHANGED <<schedVars, probeVars, osVars, writeVars, resolveVars, specTokens, portsSpec>>

NextParse == ParsePortSpecCall

ParseSpec == InitParse /\ [][NextParse]_vars

\* ================================================================ WriteAtomic
\* One call of WriteAtomic, one step per file-system call. Every call it
\* makes can fail; the error of os.Remove is discarded by the code, so a
\* failed removal leaves the temp file where it is.
MaxData == 2

Bytes == {"a", "b"}
Contents == UNION {[1..n -> Bytes] : n \in 0..MaxData}

\* "o" in the working directory, and "d/o"
Paths == {<<"o">>, <<"d", "/", "o">>}

Slashes(path) == {i \in DOMAIN path : path[i] = "/"}

\* filepath.Dir of a clean relative path
Dir(path) ==
    IF Slashes(path) = {} THEN <<".">>
    ELSE SubSeq(path, 1, (CHOOSE i \in Slashes(path) : \A j \in Slashes(path) : j <= i) - 1)

\* part_001 45: if dir != "" && dir != "."
NeedsMkdir(path) == Dir(path) # <<>> /\ Dir(path) # <<".">>

InitWrite ==
    /\ SchedOff
    /\ ProbeIdle
    /\ OSIdle
    /\ ParseIdle
    /\ ResolveIdle
    /\ waPath \in Paths
    /\ waData \in Contents
    /\ waOrig \in {File(c) : c \in Contents} \cup {Absent}
    /\ \E d \in BOOLEAN :
          /\ ~NeedsMkdir(waPath) => d
          /\ ~d => waOrig = Absent
          /\ fsys = [dir |-> d, final |-> waOrig, tmp |-> Absent]
    /\ waPc = "mkdir"
    /\ waErr = ""

WAUnchanged ==
    UNCHANGED <<schedVars, probeVars, osVars, parseVars, resolveVars, waPath, waData, waOrig>>

WAReturn(e) == waPc' = "done" /\ waErr' = e

\* part_001 44-50
WAMkdirAll ==
    /\ waPc = "mkdir"
    /\ \/ /\ ~NeedsMkdir(waPath)
          /\ waPc' = "create"
          /\ UNCHANGED <<fsys, waErr>>
       \/ /\ NeedsMkdir(waPath)
          /\ fsys' = [fsys EXCEPT !.dir = TRUE]
          /\ waPc' = "create"
          /\ UNCHANGED waErr
       \/ /\ NeedsMkdir(waPath)
          /\ WAReturn("mkdir")
          /\ UNCHANGED fsys
    /\ WAUnchanged

\* part_001 52-56
WACreateTemp ==
    /\ waPc = "create"
    /\ \/ /\ fsys.dir
          /\ fsys' = [fsys EXCEPT !.tmp = File(<<>>)]
          /\ waPc' = "write"
          /\ UNCHANGED waErr
       \/ /\ WAReturn("create temp file")
          /\ UNCHANGED fsys
    /\ WAUnchanged

\* part_001 65-68: a failed Write may have written a part of the data
WAWrite ==
    /\ waPc = "write"
    /\ \/ /\ fsys' = [fsys EXCEPT !.tmp = File(waData)]
          /\ waPc' = "sync"
          /\ UNCHANGED waErr
       \/ /\ \E n \in 0..(Len(waData) - 1) :
                fsys' = [fsys EXCEPT !.tmp = File(SubSeq(waData, 1, n))]
          /\ waPc' = "cleanup"
          /\ waErr' = "write temp file"
    /\ WAUnchanged

\* part_001 71-74
WASync ==
    /\ waPc = "sync"
    /\ \/ waPc' = "close" /\ UNCHANGED waErr
       \/ waPc' = "cleanup" /\ waErr' = "sync temp file"
    /\ UNCHANGED fsys
    /\ WAUnchanged

\* part_001 77-80
WAClose ==
    /\ waPc = "close"
    /\ \/ waPc' = "rename" /\ UNCHANGED waErr
       \/ waPc' = "cleanup" /\ waErr' = "close temp file"
    /\ UNCHANGED fsys
    /\ WAUnchanged

\* os.Rename: the final path takes the content of the temp file in one step
RenameAppends(f) ==
    [f EXCEPT !.final = File(f.final.content \o f.tmp.content),
              !.tmp = Absent]

Rename(f) == [f EXCEPT !.final = f.tmp, !.tmp = Absent]

\* part_001 83-88
WARename ==
    /\ waPc = "rename"
    /\ \/ /\ fsys' = Rename(fsys)
          /\ WAReturn("nil")
       \/ /\ waPc' = "cleanup"
          /\ waErr' = "rename temp -> final"
          /\ UNCHANGED fsys
    /\ WAUnchanged

\* part_001 59-62, 78, 84: _ = os.Remove(tmpPath), then the return
WARemove ==
    /\ waPc = "cleanup"
    /\ \/ fsys' = [fsys EXCEPT !.tmp = Absent]
       \/ UNCHANGED fsys
    /\ waPc' = "done"
    /\ UNCHANGED waErr
    /\ WAUnchanged

NextWrite ==
    \/ WAMkdirAll
    \/ WACreateTemp
    \/ WAWrite
    \/ WASync
    \/ WAClose
    \/ WARename
    \/ WARemove

WriteSpec == InitWrite /\ [][NextWrite]_vars

\* ================================================================ ResolveTargetToIPv4
\* net.IP values are sequences of 4 or 16 bytes; NoIP is the nil net.IP.
MaxAddrs == 2

NoIP == <<>>

HexChars == DigitChars \o <<"a", "b", "c", "d", "e", "f">>
HexVal == [ch \in {HexChars[i] : i \in DOMAIN HexChars} |->
              (CHOOSE i \in DOMAIN HexChars : HexChars[i] = ch) - 1]

RECURSIVE HexValue(_)
HexValue(str) ==
    IF str = <<>> THEN 0
    ELSE HexValue(SubSeq(str, 1, Len(str) - 1)) * 16 + HexVal[ToLowerChar(str[Len(str)])]

\* one decimal field of a dotted quad: 1..3 digits, no leading zero, at most 255
DecField(str) ==
    /\ Len(str) \in 1..3
    /\ \A i \in DOMAIN str : str[i] \in DOMAIN DigitVal
    /\ Len(str) > 1 => str[1] # "0"
    /\ DecimalValue(str) <= 255

\* the IPv4 half of net.ParseIP: four decimal fields separated by dots
ParseIPv4(str) ==
    LET parts == Split(str, ".")
    IN IF Len(parts) = 4 /\ \A i \in 1..4 : DecField(parts[i])
       THEN [i \in 1..4 |-> DecimalValue(parts[i])]
       ELSE NoIP

\* one 16-bit group of an IPv6 text: 1..4 hex digits
HexField(str) ==
    /\ Len(str) \in 1..4
    /\ \A i \in DOMAIN str : ToLowerChar(str[i]) \in DOMAIN HexVal

\* the bytes of the groups of one side of an IPv6 text, <<-1>> when a group
\* is malformed; only the last group of the text may be a dotted quad
RECURSIVE GroupBytes(_, _)
GroupBytes(parts, tail) ==
    IF parts = <<>> THEN <<>>
    ELSE LET g == parts[1]
             rest == GroupBytes(Tail(parts), tail)
             here == IF HexField(g)
                     THEN <<HexValue(g) \div 256, HexValue(g) % 256>>
                     ELSE IF tail /\ Len(parts) = 1 /\ ParseIPv4(g) # NoIP
                     THEN ParseIPv4(g)
                     ELSE <<-1>>
         IN IF rest = <<-1>> \/ here = <<-1>> THEN <<-1>> ELSE here \o rest

Zeros(n) == [i \in 1..n |-> 0]

\* the IPv6 half of net.ParseIP: eight groups, or fewer with one "::"
ParseIPv6(str) ==
    LET dc == {i \in 1..(Len(str) - 1) : str[i] = ":" /\ str[i + 1] = ":"}
        side(txt, tail) == IF txt = <<>> THEN <<>> ELSE GroupBytes(Split(txt, ":"), tail)
    IN IF dc = {}
       THEN LET b == side(str, TRUE)
            IN IF Len(b) = 16 THEN b ELSE NoIP
       ELSE IF Cardinality(dc) > 1 THEN NoIP
       ELSE LET i == CHOOSE j \in dc : TRUE
                l == side(SubSeq(str, 1, i - 1), FALSE)
                r == side(SubSeq(str, i + 2, Len(str)), TRUE)
            IN IF l = <<-1>> \/ r = <<-1>> \/ Len(l) + Len(r) > 14 THEN NoIP
               ELSE l \o Zeros(16 - Len(l) - Len(r)) \o r

\* net.ParseIP: the 16-byte form of either kind of text, nil for anything else
ParseIP(str) ==
    IF ParseIPv4(str) # NoIP THEN Zeros(10) \o <<255, 255>> \o ParseIPv4(str)
    ELSE IF \E i \in DOMAIN str : str[i] = ":" THEN ParseIPv6(str)
    ELSE NoIP

\* IP.To4: the 4 bytes of an IPv4 address, also when it is held in the
\* 16-byte form ::ffff:a.b.c.d
To4(ip) ==
    IF Len(ip) = 4 THEN ip
    ELSE IF Len(ip) = 16 /\ SubSeq(ip, 1, 12) = Zeros(10) \o <<255, 255>>
    THEN SubSeq(ip, 13, 16)
    ELSE NoIP

\* IP.String of a 4-byte address
IPString(ip) ==
    Itoa(ip[1]) \o <<".">> \o Itoa(ip[2]) \o <<".">> \o Itoa(ip[3]) \o <<".">> \o Itoa(ip[4])

\* resolver.go 24-36: the loop over the answers of the lookup
RECURSIVE FirstV4(_)
FirstV4(ips) ==
    IF ips = <<>> THEN NoIP
    ELSE IF To4(ips[1].ip) # NoIP THEN To4(ips[1].ip)
    ELSE FirstV4(Tail(ips))

\* resolver.go 11-37
ResolveTargetToIPv4(target, lookup) ==
    LET ip == ParseIP(target)
    IN IF ip # NoIP
       THEN IF To4(ip) # NoIP
            THEN [ip |-> IPString(To4(ip)), err |-> "nil"]
            ELSE [ip |-> <<>>, err |-> "IPv6 addresses are not supported"]
       ELSE IF lookup.failed THEN [ip |-> <<>>, err |-> "lookup"]
       ELSE IF FirstV4(lookup.ips) # NoIP
            THEN [ip |-> IPString(FirstV4(lookup.ips)), err |-> "nil"]
       ELSE IF lookup.ips # <<>>
            THEN [ip |-> <<>>, err |-> "hostname resolves only to IPv6 addresses; IPv6 is not supported"]
       ELSE [ip |-> <<>>, err |-> "no A records found for host"]

Target(class, text) == [class |-> class, text |-> text]

\* target texts, each with what it is written as: an IPv4 literal, an IPv6
\* literal, or a host name (anything else goes to the lookup)
ResolveTargets ==
    {Target("v4", <<"1", ".", "2", ".", "3", ".", "4">>),
     Target("v4", <<"1", "0", ".", "0", ".", "0", ".", "2", "5", "5">>),
     Target("v6", <<":", ":", "1">>),
     Target("v6", <<"2", "0", "0", "1", ":", "d", "b", "8", ":", ":", "1">>),
     Target("v6", <<"F", "E", "8", "0", ":", "0", ":", "0", ":", "0", ":", "0", ":", "0", ":", "0", ":", "1">>),
     Target("v6", <<":", ":", "f", "f", "f", "f", ":", "1", ".", "2", ".", "3", ".", "4">>),
     Target("host", <<"h">>),
     Target("host", <<"1", ".", "2", ".", "3">>),
     Target("host", <<"0", "1", ".", "2", ".", "3", ".", "4">>),
     Target("host", <<"1", ".", "2", ".", "3", ".", "2", "5", "6">>)}

\* answers of the lookup: A records in the 4-byte and in the 16-byte form,
\* and an AAAA record
Addrs ==
    {[fam |-> "v4", ip |-> <<5, 6, 7, 8>>],
     [fam |-> "v4", ip |-> Zeros(10) \o <<255, 255, 9, 9, 9, 9>>],
     [fam |-> "v6", ip |-> <<32, 1, 13, 184>> \o Zeros(11) \o <<1>>]}

Lookups ==
    {[failed |-> TRUE, ips |-> <<>>]}
    \cup {[failed |-> FALSE, ips |-> l] : l \in UNION {[1..n -> Addrs] : n \in 0..MaxAddrs}}

InitResolve ==
    /\ SchedOff
    /\ ProbeIdle
    /\ OSIdle
    /\ ParseIdle
    /\ WriteIdle
    /\ rTarget \in ResolveTargets
    /\ rLookup \in Lookups
    /\ rOut = NoResolve

\* main.go 59: ip, err := netutil.ResolveTargetToIPv4(target)
ResolveCall ==
    /\ rOut = NoResolve
    /\ rOut' = ResolveTargetToIPv4(rTarget.text, rLookup)
    /\ UNCHANGED <<schedVars, probeVars, osVars, parseVars, writeVars, rTarget, rLookup>>

NextResolve == ResolveCall

ResolveSpec == InitResolve /\ [][NextResolve]_vars

\* entries of the log of one kind
Events(ev) == {i \in DOMAIN plog : plog[i].ev = ev}

\* ---------------------------------------------------------------- helpers
\* results sent so far: the buffer holds every result of the run (manager.go 70)
Delivered == resultsChan

TypeOK ==
    /\ runPc \in {"init", "running", "failed"}
    /\ cancelled \in BOOLEAN
    /\ wg \in 0..MaxWorkers
    /\ \A w \in Workers : wpc[w] \in {"off", "select", "check", "probe", "publish", "done"}
    /\ dpc \in {"off", "enqueue", "wait", "closeResults", "done"}

\* ---------------------------------------------------------------- what the caller asked for
ArgProto(f) == IF f = "s" THEN "stealth" ELSE f

\* protocols in the order the caller gave the flags
RequestedInOrder == [i \in DOMAIN argv |-> ArgProto(argv[i])]

RequestedSet ==
    IF argv = <<>> THEN {"tcp"} ELSE {ArgProto(argv[i]) : i \in DOMAIN argv}

IsRequested(st) == st \in RequestedSet

\* the requested protocols in the order stealth, tcp, udp
FixedOrder == SelectSeq(<<"stealth", "tcp", "udp">>, IsRequested)

ExpectedCount == Len(cfg.Ports) * Cardinality(RequestedSet)

CountOf(p, st) ==
    Cardinality({k \in DOMAIN Delivered :
                    Delivered[k].Port = p /\ Delivered[k].Proto = st})

Started(w) == wpc[w] # "off"
Stopped(w) == wpc[w] \in {"off", "done"}

HeldJobs == {wjob[w] : w \in {x \in Workers : wjob[x] # NoJob}}
QueuedJobs == {jobChan[k] : k \in DOMAIN jobChan}

\* protocols of the results delivered for port p, in delivery order
RECURSIVE ProtosOf(_, _)
ProtosOf(rs, p) ==
    IF rs = <<>> THEN <<>>
    ELSE (IF Head(rs).Port = p THEN <<Head(rs).Proto>> ELSE <<>>) \o ProtosOf(Tail(rs), p)

IsPrefix(a, b) == Len(a) <= Len(b) /\ \A i \in DOMAIN a : a[i] = b[i]

\* ---------------------------------------------------------------- C1
\* C1: when the result channel has been closed in a run that started and was
\* not cancelled, exactly one result has been delivered for every
\* (port, requested protocol) pair: the total is ports x protocols, no pair
\* is missing, none is delivered twice and nothing else is delivered.
C1_ExactlyOnePerPair ==
    (closeCount > 0 /\ ~cancelled) =>
        /\ Len(Delivered) = ExpectedCount
        /\ \A i \in DOMAIN cfg.Ports : \A st \in RequestedSet :
              CountOf(cfg.Ports[i], st) = 1
        /\ \A k \in DOMAIN Delivered :
              /\ Delivered[k].Proto \in RequestedSet
              /\ \E i \in DOMAIN cfg.Ports : cfg.Ports[i] = Delivered[k].Port

C1_Witness ==
    /\ closeCount > 0 /\ ~cancelled
    /\ Len(cfg.Ports) = 2 /\ Len(argv) = 3 /\ cfg.Workers = 2
    /\ Len(Delivered) = 6

\* ---------------------------------------------------------------- C2
\* C2: a valid run that requests stealth while CanOpenRawSocket reports false
\* is refused by Run with ErrNeedPriv (exit code 3) before any worker is
\* started, and no result of any protocol is emitted.
C2_StealthRefusedWithoutPrivilege ==
    (cfg.ScanStealth /\ ~canOpenRaw /\ ValidateConfig(cfg) = "nil" /\ runPc # "init") =>
        /\ runPc = "failed"
        /\ err = "ErrNeedPriv"
        /\ ExitCode(err) = 3
        /\ \A w \in Workers : ~Started(w)
        /\ Delivered = <<>>

\* ---------------------------------------------------------------- C3
ClosedSafely ==
    /\ closeCount <= 1
    /\ ~panicked
    /\ closeCount > 0 => (jobsClosed /\ wg = 0 /\ \A w \in Workers : Stopped(w))

\* C3: in every run, cancelled or not, the result channel is closed exactly
\* once: never twice, only after the job queue was closed and every worker
\* has exited, with no send on the closed channel, and every started run
\* reaches the close.
C3_ClosedOnceAfterWorkers ==
    /\ []ClosedSafely
    /\ (runPc = "running") ~> (closeCount = 1)

C3_Witness ==
    /\ closeCount = 1 /\ cancelled
    /\ Len(Delivered) < ExpectedCount
    /\ \E w \in Workers : pubAfterCancel[w] = 1

\* ---------------------------------------------------------------- C4
AllStopped ==
    /\ \A w \in Workers : Stopped(w)
    /\ dpc = "done"
    /\ closeCount = 1

\* C4: once a started run is cancelled, every worker and the dispatcher
\* eventually terminate and the result channel is eventually closed,
\* whatever is still queued and whatever the worker count.
C4_CancelTerminates == (runPc = "running" /\ cancelled) ~> AllStopped

C4_Witness ==
    /\ cancelled /\ AllStopped
    /\ jobChan # <<>>
    /\ Len(Delivered) < ExpectedCount

\* ---------------------------------------------------------------- C5
\* C5: Run on a config with an empty Target, an empty IP or no ports returns
\* an error and no channel, with no worker or dispatcher started, no job
\* queued and no result produced.
C5_InvalidConfigRejected ==
    (runPc # "init" /\ (cfg.Target = "" \/ cfg.IP = "" \/ Len(cfg.Ports) = 0)) =>
        /\ runPc = "failed"
        /\ err # "nil"
        /\ ExitCode(err) # 0
        /\ \A w \in Workers : ~Started(w)
        /\ dpc = "off"
        /\ jobChan = <<>>
        /\ Delivered = <<>>

C5_Witness ==
    /\ runPc = "failed"
    /\ cfg.Target # "" /\ cfg.IP # "" /\ Len(cfg.Ports) = 0

\* ---------------------------------------------------------------- C6
\* C6: with Workers 0 or negative a started run has exactly one worker, and
\* when it is not cancelled the channel closes with ports x protocols results.
C6_WorkersCoercedToOne ==
    (cfg.Workers <= 0 /\ runPc = "running") =>
        /\ Cardinality({w \in Workers : Started(w)}) = 1
        /\ (closeCount > 0 /\ ~cancelled) => Len(Delivered) = ExpectedCount

C6_Witness ==
    /\ cfg.Workers < 0 /\ runPc = "running"
    /\ closeCount > 0 /\ ~cancelled
    /\ Len(cfg.Ports) = 2 /\ Len(Delivered) >= 4

\* ---------------------------------------------------------------- C7
\* C7: while a worker's probe for the i-th protocol of its job is in flight,
\* the results of the job's earlier protocols have all been published, and
\* no other worker has a probe of the same port in flight.
C7_SequentialWithinJob ==
    \A w \in Workers : wpc[w] = "probe" =>
        /\ \A j \in 1..(widx[w] - 1) :
              CountOf(wjob[w].Port, wjob[w].ScanTypes[j]) = 1
        /\ \A v \in Workers \ {w} :
              wpc[v] = "probe" => wjob[v].Port # wjob[w].Port

C7_Witness ==
    \E w, v \in Workers :
        /\ w # v
        /\ wpc[w] = "probe" /\ wpc[v] = "probe"
        /\ widx[w] = 3

C9_NoPublishAfterCancel == \A w \in Workers : pubAfterCancel[w] = 0

\* C9 amended: once the context is cancelled a worker sends at most one
\* further result, and after sending it has no further probe in flight and
\* no further result to publish.
C9_AtMostOnePublishAfterCancel ==
    \A w \in Workers :
        /\ pubAfterCancel[w] <= 1
        /\ pubAfterCancel[w] = 1 => wpc[w] \in {"check", "select", "done"}

C9_Witness ==
    \E w \in Workers :
        /\ pubAfterCancel[w] = 1
        /\ wpc[w] = "done"
        /\ widx[w] <= Len(wjob[w].ScanTypes)

\* ---------------------------------------------------------------- C10
\* C10: once the context is cancelled no worker starts a probe, and a worker
\* that polls the context before a protocol exits there.
C10_NoProbeAfterCancel ==
    [][cancelled =>
         \A w \in Workers :
            /\ wpc'[w] = "probe" => wpc[w] = "probe"
            /\ (wpc[w] = "check" /\ wpc'[w] # "check") => wpc'[w] = "done"]_vars

\* a worker that published its first protocol and left at the poll before the second
C10_Witness ==
    \E w \in Workers :
        /\ cancelled
        /\ wpc[w] = "done"
        /\ wjob[w] # NoJob
        /\ widx[w] = 2 /\ Len(wjob[w].ScanTypes) >= 2
        /\ wres[w].Proto = wjob[w].ScanTypes[1]
        /\ pubAfterCancel[w] = 0

\* ---------------------------------------------------------------- C13
Holding(w) == wpc[w] \in {"check", "probe", "publish"}

\* C13: every job is received from the queue by at most one worker, and by
\* exactly one when the run closes uncancelled; no two workers work on the
\* same job; every job queued or held still has the fields it was built with.
C13_JobOwnedByOneWorker ==
    /\ \A p \in 1..MaxPort : deqCount[p] <= 1
    /\ \A w, v \in Workers :
          (w # v /\ Holding(w) /\ Holding(v)) => wjob[w].Port # wjob[v].Port
    /\ \A job \in HeldJobs \cup QueuedJobs :
          /\ job.Target = cfg.Target /\ job.IP = cfg.IP
          /\ job.ScanTypes = FixedOrder
          /\ \E i \in DOMAIN cfg.Ports : job.Port = cfg.Ports[i]
    /\ (closeCount > 0 /\ ~cancelled) =>
          \A p \in 1..MaxPort :
             deqCount[p] = (IF \E i \in DOMAIN cfg.Ports : cfg.Ports[i] = p THEN 1 ELSE 0)

C13_Witness ==
    /\ closeCount > 0 /\ ~cancelled
    /\ Len(cfg.Ports) = 2
    /\ wjob[1] # NoJob /\ wjob[2] # NoJob /\ wjob[1].Port # wjob[2].Port
    /\ deqCount[1] = 1 /\ deqCount[2] = 1

\* ---------------------------------------------------------------- C11
\* C11: a TCP or UDP probe call that is in flight when ctx is cancelled
\* returns because of the cancellation, not on the network's answer or on
\* its own timeout.
C11_InFlightProbeObservesCancel ==
    \A i \in Events("cancel"), k \in Events("return") :
        (ScanType \in {"tcp", "udp"} /\ plog[i].arg = "probe" /\ i < k)
            => plog[k].why = "ctx"

\* ---------------------------------------------------------------- C12
\* the TCP or UDP probe of this body ended in an error of a network step
ProbeFailed ==
    /\ ScanType \in {"tcp", "udp"}
    /\ \E k \in Events("return") : plog[k].arg.err # NoErr

SentResults == {plog[i].arg : i \in Events("send")}

PublishedOnce ==
    ProbeFailed =>
        /\ pres.Error # <<>> /\ pres.State \in States
        /\ pres.Port = pin.job.Port /\ pres.Proto = ScanType
        /\ ppc = "done" => pctx
        /\ ppc # "continue" => Events("send") = {}
        /\ ppc = "continue" => Cardinality(Events("send")) = 1 /\ SentResults = {pres}

\* C12: after a probe that failed (timeout, refusal, other transport error)
\* the worker does not stop unless ctx is cancelled: it publishes exactly one
\* result for the port and protocol, with a state and a non-empty Error, and
\* reaches the continue that leads to the next protocol or job.
C12_FailedProbeStillPublished ==
    /\ PublishedOnce
    /\ (ProbeFailed /\ ~pctx /\ ppc # "continue") =>
          ENABLED (PService \/ PDetectOS \/ PPublishSend)

C12_Witness ==
    /\ ProbeFailed /\ ~pctx /\ ppc = "continue"
    /\ pin.idx < Len(pin.job.ScanTypes)
    /\ pres.State = "closed"
    /\ AfterPublish(pin.job, pin.idx) = "check"

\* ---------------------------------------------------------------- C14
\* what the network did to the probe call of this body
ReturnedNet == plog[CHOOSE k \in Events("return") : TRUE].arg

\* the probe has just returned: pres is its return value
JustReturned(st) == ScanType = st /\ ppc = "service"

\* C14: TCPScan's result follows the outcome of its one connect: completed
\* gives open, refused gives closed, deadline exceeded gives filtered with
\* Error "timeout", any other error gives filtered with the raw error text;
\* the state is always one of open, closed, filtered.
C14_TCPClassification ==
    JustReturned("tcp") =>
        LET e == ReturnedNet.err
        IN /\ pres.State \in {"open", "closed", "filtered"}
           /\ e.cause = "none" => pres.State = "open" /\ pres.Error = <<>>
           /\ e.cause = "refused" => pres.State = "closed"
           /\ e.cause = "timeout" => pres.State = "filtered" /\ pres.Error = S_timeout
           /\ e.cause \notin {"none", "refused", "timeout"} =>
                 pres.State = "filtered" /\ pres.Error = e.text /\ e.text # <<>>

C14_Witness ==
    /\ JustReturned("tcp")
    /\ ReturnedNet.err.cause = "refused"
    /\ ReturnedNet.err.errno = "WSAECONNREFUSED"
    /\ pres.State = "closed"

\* ---------------------------------------------------------------- C15
Returned == Events("return") # {}

ReadTimedOut ==
    ReturnedNet.stage = "read" /\ ReturnedNet.err.cause = "timeout" /\ ReturnedNet.pkt = <<>>

GotReply ==
    ReturnedNet.stage = "read" /\ ReturnedNet.err = NoErr /\ Len(ReturnedNet.pkt) > 0

\* the reply does not carry the transaction id of the query that was sent
TxidMismatch ==
    /\ Len(ReturnedNet.pkt) >= 12
    /\ Uint16(ReturnedNet.pkt, 1) # DnsTXID(pin.job.Port, ReturnedNet)

\* C16: a reply of at least one byte makes UDPScan return open: without an
\* Error on ports other than 53, and on port 53 also when the reply fails
\* validation (too short, other transaction id, no response bit), then with
\* the validation annotation in Error.
C16_UDPReplyIsOpen ==
    (JustReturned("udp") /\ GotReply) =>
        /\ pres.State = "open"
        /\ pin.job.Port # 53 => pres.Error = <<>>
        /\ (pin.job.Port = 53 /\ (TxidMismatch \/ Len(ReturnedNet.pkt) < 12
                                  \/ Uint16(ReturnedNet.pkt, 3) < 32768))
              => pres.Error = S_dns_not_validated /\ pres.Error # <<>>

C16_Witness ==
    /\ JustReturned("udp") /\ GotReply
    /\ pin.job.Port = 53 /\ TxidMismatch
    /\ pres.State = "open" /\ pres.Error # <<>>

\* ---------------------------------------------------------------- C17
\* connecting, sending or reading failed
StepFailed == ReturnedNet.stage \in {"dial", "write", "read"} /\ ReturnedNet.err # NoErr

C19_StealthAlwaysFiltered ==
    (ScanType = "stealth" /\ Returned) =>
        /\ pres.Proto = "stealth" /\ pres.State = "filtered"
        /\ pres.Error # <<>>
        /\ ReturnedNet = "no" => pres.Error = S_need_priv
        /\ ReturnedNet = "err" => Contains(pres.Error, S_priv_check_error)
        /\ ReturnedNet = "ok" => pres.Error = S_not_implemented
        /\ \A i \in Events("call") : plog[i].arg = "stealth"
        /\ \A r \in SentResults : r.Proto = "stealth" /\ r.State = "filtered"

C19_Witness ==
    /\ ScanType = "stealth" /\ Returned /\ ReturnedNet = "ok"
    /\ ppc = "continue"
    /\ \E r \in SentResults : r.State = "filtered" /\ r.Error = S_not_implemented

\* ---------------------------------------------------------------- C20
\* C20: the worker calls the service detector only with an open result and
\* only when ServiceDetect is set, the OS detector only with an open result
\* and only when OSDetect is set, the service detector first, both before the
\* result is sent; a published result that is not open has empty Service,
\* ServiceBanner, OSGuess and Confidence.
C20_DetectorsOnlyOnOpen ==
    /\ \A i \in Events("DetectService") :
          plog[i].arg.State = "open" /\ pin.flags.ServiceDetect
    /\ \A i \in Events("DetectOS") :
          plog[i].arg.State = "open" /\ pin.flags.OSDetect
    /\ \A i \in Events("DetectService"), j \in Events("DetectOS") : i < j
    /\ \A i \in Events("DetectService") \cup Events("DetectOS"), j \in Events("send") : i < j
    /\ Cardinality(Events("DetectService")) <= 1 /\ Cardinality(Events("DetectOS")) <= 1
    /\ \A r \in SentResults :
          r.State # "open" =>
             r.Service = <<>> /\ r.ServiceBanner = <<>> /\ r.OSGuess = "" /\ r.Confidence = ""

C20_Witness ==
    /\ ppc = "continue"
    /\ pin.flags.ServiceDetect /\ pin.flags.OSDetect
    /\ Events("DetectService") # {} /\ Events("DetectOS") # {}
    /\ \E r \in SentResults :
          r.State = "open" /\ r.Service = K_ssh /\ r.OSGuess = "Windows"

\* ---------------------------------------------------------------- C21
\* C21: DetectService leaves every field of the result it is given as it
\* was, except Service, ServiceBanner and Confidence, whatever the
\* configuration (Verbose included) and whatever its own connection does.
C21_DetectServiceFrame ==
    (ppc = "os" /\ Events("DetectService") # {}) =>
        LET before == plog[CHOOSE i \in Events("DetectService") : TRUE].arg
        IN /\ pres.Proto = before.Proto /\ pres.Port = before.Port
           /\ pres.State = before.State
           /\ pres.Target = before.Target /\ pres.IP = before.IP
           /\ pres.OSGuess = before.OSGuess /\ pres.RTTMillis = before.RTTMillis
           /\ pres.Error = before.Error

\* ---------------------------------------------------------------- C22
\* C22: DetectOS returns one (guess, confidence) pair for one input: two
\* calls with the same results return the same pair, also when two buckets
\* share the highest score.
C22_DetectOSDeterministic ==
    \A i \in Events("DetectOS") : Cardinality(DetectOSForResult(plog[i].arg)) = 1

\* ---------------------------------------------------------------- C23
IsOpenResult(r) == r.State = "open"

\* C23: the OS guess main reports is computed from the open results only:
\* it is what DetectOS gives for the open results alone, whatever closed,
\* filtered or open|filtered results the run also produced.
C23_OSGuessFromOpenOnly ==
    osLine.kind \in {"guess", "unknown"} =>
        \E o \in DetectOS(SelectSeq(mainResults, IsOpenResult)) : osLine = LineOf(o)

\* ---------------------------------------------------------------- C24
\* the calls of this body that obtained a connection
OpenedByProbe ==
    \/ ScanType = "tcp" /\ Returned /\ ReturnedNet.err = NoErr
    \/ ScanType = "udp" /\ Returned /\ ReturnedNet.stage \notin {"resolve", "dial"}

\* C24: when TCPScan, UDPScan or DetectService has returned, on success or
\* on any error, it holds no connection open: the number of connections
\* opened and not closed is zero after every call.
C24_NoConnectionHeld == pconns = 0

C24_Witness ==
    /\ pconns = 0
    /\ JustReturned("udp") /\ OpenedByProbe
    /\ ReturnedNet.stage = "write" /\ ReturnedNet.err # NoErr

\* ---------------------------------------------------------------- C25
ParseReturned == parsed # NoParse

AllTokensValid == specTokens # <<>> /\ \A i \in DOMAIN specTokens : TokValid(specTokens[i])

NamedPorts == UNION {TokPorts(specTokens[i]) : i \in DOMAIN specTokens}

\* C25: for a spec all of whose tokens are valid single ports or ranges,
\* ParsePortSpec returns no error and the strictly ascending list of exactly
\* the ports the tokens name, whatever the order of the tokens and however
\* they repeat or overlap.
C25_ValidSpecSortedUnion ==
    (ParseReturned /\ AllTokensValid) =>
        /\ parsed.err = "nil"
        /\ \A i \in 1..(Len(parsed.ports) - 1) : parsed.ports[i] < parsed.ports[i + 1]
        /\ {parsed.ports[i] : i \in DOMAIN parsed.ports} = NamedPorts

C25_Witness ==
    /\ ParseReturned /\ AllTokensValid
    /\ Len(specTokens) = 2
    /\ specTokens[1].kind = "range" /\ specTokens[2].kind = "single"
    /\ specTokens[2].a < specTokens[1].b /\ specTokens[2].a >= specTokens[1].a
    /\ Len(parsed.ports) = 3

\* ---------------------------------------------------------------- C26
\* C26: an empty spec, an empty token, a token that is not a number or a
\* range of numbers, a port outside 1..65535 or a range with start above end
\* makes ParsePortSpec return an error and no ports, even when the other
\* tokens are valid.
TokInvalid(t) ==
    \/ t.kind = "word"
    \/ t.kind \in {"single", "range"} /\ ~TokValid(t)

SomeTokenInvalid ==
    specTokens = <<>> \/ \E i \in DOMAIN specTokens : TokInvalid(specTokens[i])

C26_InvalidSpecRejected ==
    (ParseReturned /\ SomeTokenInvalid) =>
        parsed.err # "nil" /\ parsed.ports = <<>>

C26_Witness ==
    /\ ParseReturned
    /\ Len(specTokens) = 2
    /\ TokValid(specTokens[1]) /\ ~TokValid(specTokens[2])
    /\ specTokens[2].kind = "range" /\ specTokens[2].a > specTokens[2].b
    /\ specTokens[2].a <= 65535 /\ specTokens[2].b >= 1
    /\ parsed.err = "range start greater than end"

\* ---------------------------------------------------------------- C27
WAFailed == waPc = "done" /\ waErr # "nil"

WASucceeded == waPc = "done" /\ waErr = "nil"

\* C27: when WriteAtomic fails at any step it returns an error, the final
\* path holds what it held before the call, and the temp file it created is
\* gone.
C27_FailureLeavesNoTrace ==
    WAFailed =>
        /\ waErr # ""
        /\ fsys.final = waOrig
        /\ fsys.tmp = Absent

\* ---------------------------------------------------------------- C28
\* C28: when WriteAtomic returns nil the final path holds exactly the data
\* and no temp file is left; in every other state, the steps of the call
\* included, the final path holds what it held before the call, never a part
\* of the new data.
C28_AllOrNothing ==
    /\ WASucceeded => fsys.final = File(waData) /\ fsys.tmp = Absent
    /\ (waPc # "idle" /\ ~WASucceeded) => fsys.final = waOrig

C28_Witness ==
    /\ WASucceeded
    /\ Len(waData) = MaxData
    /\ waOrig.exists /\ waOrig.content # <<>> /\ waOrig.content # waData
    /\ fsys.final = File(waData)

\* ---------------------------------------------------------------- C29
Resolved == rOut # NoResolve

V4Answers == SelectSeq(rLookup.ips, LAMBDA a : a.fam = "v4")

\* C29: ResolveTargetToIPv4 returns an IPv4 literal as it is, fails on an
\* IPv6 literal, and for a host name returns the first IPv4 address of the
\* lookup, failing when the lookup fails or answers no IPv4 address.
C29_ResolveContract ==
    Resolved =>
        /\ rTarget.class = "v4" => rOut = [ip |-> rTarget.text, err |-> "nil"]
        /\ rTarget.class = "v6" => rOut.err # "nil"
        /\ (rTarget.class = "host" /\ ~rLookup.failed /\ V4Answers # <<>>) =>
               rOut = [ip |-> IPString(To4(V4Answers[1].ip)), err |-> "nil"]
        /\ (rTarget.class = "host" /\ (rLookup.failed \/ V4Answers = <<>>)) =>
               rOut.err # "nil" /\ rOut.ip = <<>>

\* ---------------------------------------------------------------- C30
ProtocolOrder == <<"stealth", "tcp", "udp">>

Rank(st) == CHOOSE i \in DOMAIN ProtocolOrder : ProtocolOrder[i] = st

SeveralRequested == Cardinality(RequestedSet) > 1

PublishedIsPrefix(p) == IsPrefix(ProtosOf(Delivered, p), MakeJob(cfg, p).ScanTypes)

\* C31: in every state, cancelled or not, the protocols published for a port
\* are a prefix of the port's protocol list and the port's job was received
\* at most once; a worker that has exited never runs again, and a result
\* once in the channel stays there, the close included.
C31_PrefixSurvivesCancel ==
    /\ [](\A i \in DOMAIN cfg.Ports :
             PublishedIsPrefix(cfg.Ports[i]) /\ deqCount[cfg.Ports[i]] <= 1)
    /\ [][/\ \A w \in Workers : wpc[w] = "done" => wpc'[w] = "done"
          /\ IsPrefix(resultsChan, resultsChan')]_vars

\* a job left after its first protocol when the run was cancelled, the
\* channel closed with that one result in it
C31_Witness ==
    /\ cancelled /\ closeCount = 1
    /\ \E w \in Workers :
          /\ wpc[w] = "done" /\ wjob[w] # NoJob
          /\ Len(wjob[w].ScanTypes) = 3
          /\ ProtosOf(Delivered, wjob[w].Port) = <<"stealth">>

\* ---------------------------------------------------------------- C32
SpawnedWorkers == {w \in Workers : Started(w)}

ProbesInFlight == {w \in Workers : wpc[w] = "probe"}

WorkerCount == IF cfg.Workers >= 1 THEN cfg.Workers ELSE 1

\* C32: a started run has exactly max(Workers, 1) workers, no more are
\* added later, and the probes in flight never outnumber them.
C32_WorkerPoolBound ==
    /\ runPc = "running" =>
          /\ Cardinality(SpawnedWorkers) = WorkerCount
          /\ Cardinality(ProbesInFlight) <= WorkerCount
    /\ runPc # "running" => SpawnedWorkers = {}

C32_Witness ==
    /\ runPc = "running" /\ cfg.Workers = 2
    /\ Cardinality(ProbesInFlight) = 2
    /\ jobChan = <<>> /\ jobsClosed

\* ---------------------------------------------------------------- C33
\* a worker about to publish finds room in the result channel, the
\* dispatcher about to enqueue finds room in the job queue
RoomToSend ==
    /\ \A w \in Workers : wpc[w] = "publish" => Len(resultsChan) < ResultsChanCap(cfg)
    /\ (dpc = "enqueue" /\ dnext <= Len(Jobs(cfg))) => Len(jobChan) < JobChanCap(cfg)

\* C33: no send of a worker or of the dispatcher ever finds its channel
\* full, and with nobody reading the result channel every started run still
\* ends with all workers and the dispatcher stopped and the channel closed.
C33_SendsNeverBlock ==
    /\ []RoomToSend
    /\ (runPc = "running") ~> AllStopped

\* every result of an uncancelled run sits unread in the closed channel
C33_Witness ==
    /\ AllStopped /\ ~cancelled
    /\ Len(cfg.Ports) = 2
    /\ Len(resultsChan) = ResultsChanCap(cfg) /\ Len(resultsChan) = 6

SentPayload == Payload(pin.job.Port, ReturnedNet)

Reply == ReturnedNet.pkt

\* the conditions on a reply, read off its bytes
LongEnough == Len(Reply) >= 12
ResponseBit == Reply[3] >= 128
EchoesQuery == Reply[1] = SentPayload[1] /\ Reply[2] = SentPayload[2]

OnPort53 == JustReturned("udp") /\ ReturnedNet.stage = "read" /\ pin.job.Port = 53

\* C35 as stated: on port 53 the payload is a query that starts with a
\* two-byte transaction id, and a reply gives open without Error exactly
\* when it has at least 12 bytes, starts with the id of the query sent and
\* has the response bit set, any other reply giving the annotated open; on
\* every other port the payload is one byte.
C35_QueryAlwaysCarriesId ==
    /\ (JustReturned("udp") /\ ReturnedNet.stage = "read" /\ pin.job.Port # 53) =>
          Len(SentPayload) = 1
    /\ OnPort53 => Len(SentPayload) > 12
    /\ (OnPort53 /\ GotReply) =>
          /\ pres.State = "open"
          /\ pres.Error = <<>> <=> (LongEnough /\ EchoesQuery /\ ResponseBit)
          /\ pres.Error # <<>> => pres.Error = S_dns_not_validated

\* ---------------------------------------------------------------- C36
StatesOf(proto) ==
    IF proto = "udp" THEN {"open", "closed", "open|filtered"}
    ELSE {"open", "closed", "filtered"}

\* the protocol lists Run builds over every command line
BuiltScanTypes == {ScanTypesOf(MakeConfig("host", "10.0.0.1", <<1>>, a, 1)) : a \in ArgvSet}

LabelOf(r) == <<r.Target, r.IP, r.Port, r.Proto>>

JobLabel == <<pin.job.Target, pin.job.IP, pin.job.Port, ScanType>>

\* C37: every published result carries the Target, IP and Port of its job
\* and the protocol that was run as Proto, and the steps of the service and
\* OS detectors leave these four fields as the probe set them.
C37_LabelCarriedThrough ==
    /\ [](\A r \in SentResults : LabelOf(r) = JobLabel)
    /\ [][(ppc \in {"service", "os"}) => LabelOf(pres') = LabelOf(pres)]_vars

\* a result that both detectors enriched and that was then published
C37_Witness ==
    /\ Events("DetectService") # {} /\ Events("DetectOS") # {}
    /\ \E r \in SentResults :
          /\ r.Service # <<>> /\ r.OSGuess # ""
          /\ LabelOf(r) = <<"host", "10.0.0.1", 22, "tcp">>

\* ---------------------------------------------------------------- C38
Buckets == {"windows", "linux", "embedded"}

\* the points of the results collected so far, bucket by bucket
RECURSIVE TotalUpTo(_, _)
TotalUpTo(k, n) ==
    IF n = 0 THEN 0 ELSE TotalUpTo(k, n - 1) + Score(mainResults[n])[k]

Total(k) == TotalUpTo(k, Len(mainResults))

Highest == CHOOSE m \in {Total(k) : k \in Buckets} : \A k \in Buckets : Total(k) <= m

Band(n) ==
    IF n >= 6 THEN "high"
    ELSE IF n \in 3..5 THEN "medium"
    ELSE IF n \in 1..2 THEN "low"
    ELSE ""

NothingScored == mainResults = <<>> \/ \A k \in Buckets : Total(k) = 0

\* C38: over the results it is given DetectOS returns a bucket whose summed
\* points are the highest, with confidence high for 6 or more points, medium
\* for 3 to 5 and low for 1 to 2, and returns the empty guess with the empty
\* confidence exactly when there is no result or every sum is zero; the OS
\* line of main shows what DetectOS returned.
C38_HighestBucketAndBands ==
    /\ \A o \in DetectOS(mainResults) :
          /\ o[1] = "" <=> NothingScored
          /\ o[1] = "" => o[2] = ""
          /\ o[1] # "" =>
                /\ \E k \in Buckets : OSName(k) = o[1] /\ Total(k) = Highest
                /\ o[2] = Band(Highest)
    /\ (osLine # NoLine /\ osDetect) =>
          \E o \in DetectOS(mainResults) : osLine = LineOf(o)

\* the line was computed from two results whose linux points add up to 6 + 1
C38_Witness ==
    /\ osLine = [kind |-> "guess", guess |-> "Linux", conf |-> "high"]
    /\ Len(mainResults) = 2 /\ Total("linux") = 7 /\ Total("windows") = 0

\* ---------------------------------------------------------------- C39
\* the result as DetectService returned it, handed to the OS detector
AfterService == plog[CHOOSE k \in Events("DetectOS") : TRUE].arg

BothDetectorsRan ==
    /\ pin.flags.ServiceDetect /\ pin.flags.OSDetect
    /\ Events("DetectService") # {} /\ Events("DetectOS") # {}
    /\ Events("send") # {}

ServiceSet ==
    \E k \in Events("DetectService") :
        AfterService = DetectService(pin.flags, plog[k].arg, plog[k].env)

\* C39: with both detectors enabled for an open result, a non-empty OS guess
\* puts the OS detector's confidence in the published Confidence, in place
\* of the service detector's, and an empty OS guess leaves OSGuess and
\* Confidence as the service detector returned them.
C39_OSConfidenceOverwrites ==
    BothDetectorsRan =>
        /\ ServiceSet
        /\ \A r \in SentResults :
              \E o \in DetectOSForResult(AfterService) :
                  IF o[1] # ""
                  THEN r.OSGuess = o[1] /\ r.Confidence = o[2]
                  ELSE r.OSGuess = AfterService.OSGuess
                       /\ r.Confidence = AfterService.Confidence

\* the service detector said smtp with medium confidence, the OS detector
\* Linux with low confidence, and low was published
C39_Witness ==
    /\ BothDetectorsRan
    /\ AfterService.Service = K_smtp /\ AfterService.Confidence = "medium"
    /\ \E r \in SentResults :
          r.OSGuess = "Linux" /\ r.Confidence = "low" /\ r.Service = K_smtp

\* ---------------------------------------------------------------- C40
\* two characters that differ at most in case
FoldEq(a, b) == ToLowerChar(a) = ToLowerChar(b)

OccursIn(sub, str) ==
    \E i \in 1..(Len(str) - Len(sub) + 1) :
        \A j \in 1..Len(sub) : FoldEq(str[i + j - 1], sub[j])

Matching(b) == {i \in DOMAIN Signatures : OccursIn(Signatures[i].Substr, b)}

DetectAsStated(b) ==
    LET d == Detect(b)
    IN /\ d.found <=> (b # <<>> /\ Matching(b) # {})
       /\ d.found =>
             \E i \in Matching(b) :
                 /\ \A j \in Matching(b) : i <= j
                 /\ d.service = Signatures[i].Service
                 /\ d.confidence = Signatures[i].Confidence
       /\ ~d.found => d.service = <<>> /\ d.confidence = ""

\* the service detector has just matched a banner, now in ServiceBanner
BannerMatched ==
    ppc = "os" /\ Events("DetectService") # {} /\ pres.ServiceBanner # <<>>

\* C40: Detect finds a signature whatever the case of the banner's letters,
\* returns the service and confidence of the earliest table entry whose
\* substring occurs in the banner, and reports found = false exactly for the
\* empty banner and for a banner with no signature substring; the service
\* detector stores what Detect returned for the banner it matched.
C40_FirstSignatureWins ==
    /\ DetectAsStated(<<>>)
    /\ BannerMatched =>
          /\ DetectAsStated(pres.ServiceBanner)
          /\ Detect(pres.ServiceBanner).found =>
                /\ pres.Service = Detect(pres.ServiceBanner).service
                /\ pres.Confidence = Detect(pres.ServiceBanner).confidence

\* an upper-case "HTTP/" banner that also names nginx: entry 2 wins over 3
C40_Witness ==
    /\ BannerMatched
    /\ pres.ServiceBanner = TrimSpace(B_nginx)
    /\ Matching(pres.ServiceBanner) = {2, 3}
    /\ pres.Service = K_http /\ pres.Confidence = "medium"

====
